---- MODULE Spec2Model ----
(***************************************************************************)
(* A model of the Merkle Patricia Trie engine of mpts-visualization:       *)
(* byte/nibble/hex utilities, the hex-prefix compact path codec, the RLP   *)
(* node codec, the in-memory KV store and the insert/lookup engine with    *)
(* its embed-vs-hash finalisation.                                         *)
(*                                                                         *)
(* Representation.  A Uint8Array is a sequence of integers 0..255.  A JS   *)
(* string is a sequence of one-character strings.  A thrown Error is an    *)
(* `err` field different from "" in the result record of the operator.     *)
(***************************************************************************)
EXTENDS Integers, Sequences, FiniteSets, TLC

\* const name = value; ... : the value is computed once and named in what
\* follows
With(value, Rest(_)) == Rest(value)

\* ------------------------------------------------------------------------
\* bytes.ts
\* ------------------------------------------------------------------------

EMPTY_BYTES == << >>

HexDigits == <<"0","1","2","3","4","5","6","7","8","9","a","b","c","d","e","f">>

\* byte.toString(16).padStart(2, '0')
byteToHex(b) == <<HexDigits[(b \div 16) + 1], HexDigits[(b % 16) + 1]>>

hexChars(bytes) ==
  [i \in 1..(2 * Len(bytes)) |-> byteToHex(bytes[(i + 1) \div 2])[2 - (i % 2)]]

bytesToHex(bytes) == <<"0", "x">> \o hexChars(bytes)

\* bytesToHex(bytes, false)
bytesToHexNoPrefix(bytes) == hexChars(bytes)

\* String.prototype.startsWith('0x')
startsWith0x(s) == Len(s) >= 2 /\ s[1] = "0" /\ s[2] = "x"

\* The value of one character as a base-16 digit, -1 when it is none.
hexDigitValue(c) ==
  CASE c = "0" -> 0 [] c = "1" -> 1 [] c = "2" -> 2 [] c = "3" -> 3
    [] c = "4" -> 4 [] c = "5" -> 5 [] c = "6" -> 6 [] c = "7" -> 7
    [] c = "8" -> 8 [] c = "9" -> 9
    [] c \in {"a", "A"} -> 10 [] c \in {"b", "B"} -> 11
    [] c \in {"c", "C"} -> 12 [] c \in {"d", "D"} -> 13
    [] c \in {"e", "E"} -> 14 [] c \in {"f", "F"} -> 15
    [] OTHER -> -1

\* Number.parseInt(two characters, 16) stored into a Uint8Array slot:
\* parsing stops at the first non-digit, NaN is stored as 0.
parseHexPair(c1, c2) ==
  LET v1 == hexDigitValue(c1)
      v2 == hexDigitValue(c2)
  IN IF v1 < 0 THEN 0 ELSE IF v2 < 0 THEN v1 ELSE v1 * 16 + v2

hexPairs(s) == [i \in 1..(Len(s) \div 2) |-> parseHexPair(s[2 * i - 1], s[2 * i])]

hexToBytes(hex) ==
  LET raw == IF startsWith0x(hex) THEN SubSeq(hex, 3, Len(hex)) ELSE hex
      normalized == IF Len(raw) % 2 = 0 THEN raw ELSE <<"0">> \o raw
  IN IF Len(raw) = 0 THEN << >> ELSE hexPairs(normalized)

\* BigInt.prototype.toString(16) of a non-negative value: no leading zero
RECURSIVE toString16(_)
toString16(value) ==
  IF value < 16 THEN <<HexDigits[value + 1]>>
  ELSE Append(toString16(value \div 16), HexDigits[(value % 16) + 1])

\* bigintToBytes writing zero as one 0x00 byte
bigintToBytesZeroByte(value) ==
  LET hex == toString16(value)
  IN hexToBytes(IF Len(hex) % 2 # 0 THEN <<"0">> \o hex ELSE hex)

bigintToBytes(value) ==
  IF value = 0 THEN EMPTY_BYTES
  ELSE LET hex == toString16(value)
       IN hexToBytes(IF Len(hex) % 2 # 0 THEN <<"0">> \o hex ELSE hex)

\* BigInt('0x' + digits) for a string of hex digits
RECURSIVE bigIntOfHex(_)
bigIntOfHex(digits) ==
  IF Len(digits) = 0 THEN 0
  ELSE 16 * bigIntOfHex(SubSeq(digits, 1, Len(digits) - 1)) + hexDigitValue(digits[Len(digits)])

bytesToBigint(bytes) ==
  IF Len(bytes) = 0 THEN 0 ELSE bigIntOfHex(bytesToHexNoPrefix(bytes))

RECURSIVE concatBytes(_)
concatBytes(parts) ==
  IF Len(parts) = 0 THEN << >> ELSE Head(parts) \o concatBytes(Tail(parts))

\* equalBytes comparing the lengths only
equalBytesLengthOnly(a, b) == Len(a) = Len(b)

equalBytes(a, b) ==
  /\ Len(a) = Len(b)
  /\ \A i \in 1..Len(a) : a[i] = b[i]

toNibbles(bytes) ==
  [i \in 1..(2 * Len(bytes)) |->
     IF i % 2 = 1 THEN bytes[(i + 1) \div 2] \div 16 ELSE bytes[i \div 2] % 16]

packPairs(nibbles) ==
  [i \in 1..(Len(nibbles) \div 2) |->
     (nibbles[2 * i - 1] % 16) * 16 + (nibbles[2 * i] % 16)]

nibblesToPackedBytes(nibbles) ==
  IF Len(nibbles) % 2 # 0
  THEN [err |-> "OddNibbles", bytes |-> << >>]
  ELSE [err |-> "", bytes |-> packPairs(nibbles)]

packedBytesToNibbles(bytes) == toNibbles(bytes)

\* cloneBytes returning as many zero bytes
cloneBytesZeroed(bytes) == [i \in 1..Len(bytes) |-> 0]

cloneBytes(bytes) == SubSeq(bytes, 1, Len(bytes))

\* ------------------------------------------------------------------------
\* hexPrefix.ts
\* ------------------------------------------------------------------------

\* validateNibbles without the check nibble < 0
validateNibblesUpperOnly(nibbles) ==
  \A i \in 1..Len(nibbles) : nibbles[i] \in Int /\ nibbles[i] <= 15

\* TRUE when validateNibbles returns normally, FALSE when it throws.
validateNibbles(nibbles) ==
  \A i \in 1..Len(nibbles) : nibbles[i] \in Int /\ nibbles[i] >= 0 /\ nibbles[i] <= 15

\* encodeCompactPath with the two flag bits exchanged
encodeCompactPathSwappedFlags(nibbles, isLeaf) ==
  IF ~validateNibbles(nibbles)
  THEN [err |-> "InvalidNibble", bytes |-> << >>]
  ELSE LET odd == Len(nibbles) % 2 = 1
           flags == (IF isLeaf THEN 1 ELSE 0) + (IF odd THEN 2 ELSE 0)
           prefixed == IF odd THEN <<flags>> \o nibbles ELSE <<flags, 0>> \o nibbles
       IN nibblesToPackedBytes(prefixed)

encodeCompactPath(nibbles, isLeaf) ==
  IF ~validateNibbles(nibbles)
  THEN [err |-> "InvalidNibble", bytes |-> << >>]
  ELSE LET odd == Len(nibbles) % 2 = 1
           flags == (IF isLeaf THEN 2 ELSE 0) + (IF odd THEN 1 ELSE 0)
           prefixed == IF odd THEN <<flags>> \o nibbles ELSE <<flags, 0>> \o nibbles
       IN nibblesToPackedBytes(prefixed)

\* decodeCompactPath reading the leaf flag from the odd-length bit
decodeCompactPathOddAsLeaf(encoded) ==
  LET nibbles == packedBytesToNibbles(encoded)
  IN IF Len(nibbles) = 0
     THEN [err |-> "EmptyCompactPath", nibbles |-> << >>, isLeaf |-> FALSE]
     ELSE LET flags == nibbles[1]
              isLeaf == flags % 2 = 1
              odd == flags % 2 = 1
              path == IF odd THEN Tail(nibbles) ELSE SubSeq(nibbles, 3, Len(nibbles))
          IN IF ~validateNibbles(path)
             THEN [err |-> "InvalidNibble", nibbles |-> << >>, isLeaf |-> FALSE]
             ELSE [err |-> "", nibbles |-> path, isLeaf |-> isLeaf]

decodeCompactPath(encoded) ==
  LET nibbles == packedBytesToNibbles(encoded)
  IN IF Len(nibbles) = 0
     THEN [err |-> "EmptyCompactPath", nibbles |-> << >>, isLeaf |-> FALSE]
     ELSE LET flags == nibbles[1]
              isLeaf == (flags \div 2) % 2 = 1
              odd == flags % 2 = 1
              path == IF odd THEN Tail(nibbles) ELSE SubSeq(nibbles, 3, Len(nibbles))
          IN IF ~validateNibbles(path)
             THEN [err |-> "InvalidNibble", nibbles |-> << >>, isLeaf |-> FALSE]
             ELSE [err |-> "", nibbles |-> path, isLeaf |-> isLeaf]

\* ------------------------------------------------------------------------
\* crypto.ts
\* ------------------------------------------------------------------------

HashLen == 32

DigestModulus == 251

DigestLanes == 4

RECURSIVE powMod(_, _)
powMod(b, e) ==
  IF e = 0 THEN 1
  ELSE LET h == powMod(b, e \div 2)
       IN (((h * h) % DigestModulus) * (IF e % 2 = 1 THEN b ELSE 1)) % DigestModulus

\* DigestWeights[j][i] = (j + 1)^i mod 251
DigestWeights ==
  SubSeq([j \in 1..DigestLanes |->
            SubSeq([i \in 1..(DigestModulus - 1) |-> powMod(j + 1, i)], 1, DigestModulus - 1)],
         1, DigestLanes)

RECURSIVE digestSum(_, _, _, _)
digestSum(input, j, lo, hi) ==
  IF lo > hi THEN 0
  ELSE IF lo = hi
  THEN ((input[lo] + 1) * DigestWeights[j][((lo - 1) % (DigestModulus - 1)) + 1]) % DigestModulus
  ELSE LET mid == (lo + hi) \div 2
       IN (digestSum(input, j, lo, mid) + digestSum(input, j, mid + 1, hi)) % DigestModulus

digestLane(input, j) == (Len(input) + j + digestSum(input, j, 1, Len(input))) % DigestModulus

digestExpand(lanes) ==
  SubSeq([k \in 1..HashLen |-> (lanes[((k - 1) % DigestLanes) + 1] + 7 * ((k - 1) \div DigestLanes)) % 256],
         1, HashLen)

\* keccak_256 is a library function.  It is modelled as a deterministic
\* 32-byte digest of the whole input: four residues, residue j being the
\* sum over the input of (b[i] + 1) * (j + 1)^i, plus the input length,
\* modulo 251, spread over the 32 output bytes.
keccak(input) ==
  digestExpand(<<digestLane(input, 1), digestLane(input, 2),
                 digestLane(input, 3), digestLane(input, 4)>>)

RLP_EMPTY_STRING == <<128>>

EMPTY_TRIE_ROOT == keccak(RLP_EMPTY_STRING)

\* ------------------------------------------------------------------------
\* @ethereumjs/rlp, as used by nodeCodec.ts
\* ------------------------------------------------------------------------

\* The minimal big-endian bytes of a length (at most two bytes are needed
\* for the node sizes of the model).
lengthBytes(len) == IF len < 256 THEN <<len>> ELSE <<len \div 256, len % 256>>

encodeLength(len, offset) ==
  IF len < 56 THEN <<len + offset>>
  ELSE <<offset + 55 + Len(lengthBytes(len))>> \o lengthBytes(len)

\* rlpEncode of one Uint8Array
rlpEncodeBytes(bytes) ==
  IF Len(bytes) = 1 /\ bytes[1] < 128 THEN bytes
  ELSE encodeLength(Len(bytes), 128) \o bytes

RECURSIVE rlpEncodeItems(_)
rlpEncodeItems(items) ==
  IF Len(items) = 0 THEN << >>
  ELSE rlpEncodeBytes(Head(items)) \o rlpEncodeItems(Tail(items))

\* rlpEncode of an array of Uint8Arrays
rlpEncodeList(items) ==
  LET payload == rlpEncodeItems(items)
  IN encodeLength(Len(payload), 192) \o payload

RECURSIVE beValue(_, _)
beValue(bytes, acc) ==
  IF Len(bytes) = 0 THEN acc ELSE beValue(Tail(bytes), acc * 256 + Head(bytes))

\* One RLP item at the head of `input`: [err, isList, data, rest].  `data`
\* is the string's bytes, or the list's payload.
rlpHead(input) ==
  LET bad == [err |-> "InvalidRlp", isList |-> FALSE, data |-> << >>, rest |-> << >>]
      n == Len(input)
      b == input[1]
      cut(isList, from, len) ==
        IF from + len - 1 > n THEN bad
        ELSE [err |-> "", isList |-> isList,
              data |-> SubSeq(input, from, from + len - 1),
              rest |-> SubSeq(input, from + len, n)]
      long(isList, llen) ==
        IF 1 + llen > n \/ input[2] = 0 THEN bad
        ELSE LET len == beValue(SubSeq(input, 2, 1 + llen), 0)
             IN IF len < 56 THEN bad ELSE cut(isList, 2 + llen, len)
  IN IF n = 0 THEN bad
     ELSE IF b < 128 THEN cut(FALSE, 1, 1)
     ELSE IF b < 184 THEN
            IF b = 129 /\ n >= 2 /\ input[2] < 128 THEN bad ELSE cut(FALSE, 2, b - 128)
     ELSE IF b < 192 THEN long(FALSE, b - 183)
     ELSE IF b < 248 THEN cut(TRUE, 2, b - 192)
     ELSE long(TRUE, b - 247)

\* The items of a list payload: [err, items], each item [isList, data].
RECURSIVE rlpItems(_)
rlpItems(payload) ==
  IF Len(payload) = 0 THEN [err |-> "", items |-> << >>]
  ELSE With(rlpHead(payload), LAMBDA h :
         IF h.err # "" THEN [err |-> h.err, items |-> << >>]
         ELSE With(rlpItems(h.rest), LAMBDA t :
                IF t.err # "" \/ (h.isList /\ rlpItems(h.data).err # "")
                THEN [err |-> "InvalidRlp", items |-> << >>]
                ELSE [err |-> "",
                      items |-> <<[isList |-> h.isList, data |-> h.data]>> \o t.items]))

\* rlpDecode(encoded): [err, isList, data, items]; the remainder must be
\* empty.
rlpDecode(encoded) ==
  LET bad == [err |-> "InvalidRlp", isList |-> FALSE, data |-> << >>, items |-> << >>]
  IN With(rlpHead(encoded), LAMBDA h :
       IF h.err # "" \/ Len(h.rest) # 0 THEN bad
       ELSE IF ~h.isList
       THEN [err |-> "", isList |-> FALSE, data |-> h.data, items |-> << >>]
       ELSE With(rlpItems(h.data), LAMBDA l :
              IF l.err # "" THEN bad
              ELSE [err |-> "", isList |-> TRUE, data |-> h.data, items |-> l.items]))

\* ------------------------------------------------------------------------
\* nodeCodec.ts
\* ------------------------------------------------------------------------

BranchWidth == 16

refKindFromRef(ref) ==
  IF Len(ref) = 0 THEN "empty" ELSE IF Len(ref) < HashLen THEN "embedded" ELSE "hash-ref"

\* `embedded:` followed by the first 24 hex characters of keccak(ref)
nodeIdFromRef(ref) ==
  IF Len(ref) = 0 THEN <<"empty">>
  ELSE IF Len(ref) = HashLen THEN bytesToHex(ref)
  ELSE <<"embedded:">> \o SubSeq(bytesToHexNoPrefix(keccak(ref)), 1, 24)

\* encodeTrieNode writing the leaf flag on every compact path
encodeTrieNodeAllLeaves(node) ==
  IF node.type = "branch" THEN
    IF Len(node.children) # BranchWidth
    THEN [err |-> "BranchWidth", bytes |-> << >>]
    ELSE [err |-> "", bytes |-> rlpEncodeList(node.children \o <<node.value>>)]
  ELSE LET cp == encodeCompactPath(node.path, TRUE)
       IN IF cp.err # "" THEN [err |-> cp.err, bytes |-> << >>]
          ELSE [err |-> "",
                bytes |-> rlpEncodeList(<<cp.bytes,
                             IF node.type = "leaf" THEN node.value ELSE node.child>>)]

\* [err, bytes]
encodeTrieNode(node) ==
  IF node.type = "branch" THEN
    IF Len(node.children) # BranchWidth
    THEN [err |-> "BranchWidth", bytes |-> << >>]
    ELSE [err |-> "", bytes |-> rlpEncodeList(node.children \o <<node.value>>)]
  ELSE LET cp == encodeCompactPath(node.path, node.type = "leaf")
       IN IF cp.err # "" THEN [err |-> cp.err, bytes |-> << >>]
          ELSE [err |-> "",
                bytes |-> rlpEncodeList(<<cp.bytes,
                             IF node.type = "leaf" THEN node.value ELSE node.child>>)]

NoNode == [type |-> "none"]

RECURSIVE itemData(_)
itemData(items) ==
  IF Len(items) = 0 THEN << >> ELSE <<Head(items).data>> \o itemData(Tail(items))

\* [err, node]
decodeTrieNode(encoded) ==
  LET fail(e) == [err |-> e, node |-> NoNode]
  IN With(rlpDecode(encoded), LAMBDA d :
       IF d.err # "" THEN fail(d.err)
       ELSE IF ~d.isList THEN fail("ExpectedList")
       ELSE IF Len(d.items) = 17 THEN
              IF \E i \in 1..Len(d.items) : d.items[i].isList THEN fail("ExpectedBytes")
              ELSE [err |-> "",
                    node |-> [type |-> "branch",
                              children |-> SubSeq(itemData(d.items), 1, BranchWidth),
                              value |-> d.items[17].data]]
       ELSE IF Len(d.items) # 2 THEN fail("MalformedNode")
       ELSE IF d.items[1].isList THEN fail("ExpectedBytes")
       ELSE With(decodeCompactPath(d.items[1].data), LAMBDA path :
              IF path.err # "" THEN fail(path.err)
              ELSE IF d.items[2].isList THEN fail("ExpectedBytes")
              ELSE IF path.isLeaf
              THEN [err |-> "",
                    node |-> [type |-> "leaf", path |-> path.nibbles,
                              value |-> d.items[2].data]]
              ELSE [err |-> "",
                    node |-> [type |-> "extension", path |-> path.nibbles,
                              child |-> d.items[2].data]]))

\* ------------------------------------------------------------------------
\* store/kv.ts
\*
\* A store is [rows, insertionOrder, clock]: rows is the Map (a function
\* from normalized key to DbEntry), insertionOrder the array of keys.
\* Hex values given to the store have an even number of digits, so
\* valueSize is a whole number.
\* ------------------------------------------------------------------------

\* String.prototype.toLowerCase on one character of a hex string
toLowerChar(c) ==
  CASE c = "A" -> "a" [] c = "B" -> "b" [] c = "C" -> "c" [] c = "D" -> "d"
    [] c = "E" -> "e" [] c = "F" -> "f" [] c = "X" -> "x" [] OTHER -> c

toLowerCase(s) == [i \in 1..Len(s) |-> toLowerChar(s[i])]

\* normalizeHex dropping the 0x prefix instead of adding it
normalizeHexBare(hex) ==
  LET lower == toLowerCase(hex)
  IN IF startsWith0x(lower) THEN SubSeq(lower, 3, Len(lower)) ELSE lower

normalizeHex(hex) ==
  LET lower == toLowerCase(hex)
  IN IF startsWith0x(lower) THEN lower ELSE <<"0", "x">> \o lower

bytesSizeFromHex(hex) ==
  LET raw == IF startsWith0x(hex) THEN SubSeq(hex, 3, Len(hex)) ELSE hex
  IN Len(raw) \div 2

\* new InMemoryKvStore()
EmptyStore == [rows |-> << >>, insertionOrder |-> << >>, clock |-> 0]

\* Map.prototype.set forgetting every other key
mapSetAlone(map, key, value) == [k \in {key} |-> value]

\* Map.prototype.set
mapSet(map, key, value) ==
  [k \in (DOMAIN map) \cup {key} |-> IF k = key THEN value ELSE map[k]]

RECURSIVE fromEntriesLoop(_, _)
fromEntriesLoop(store, list) ==
  IF Len(list) = 0 THEN store
  ELSE LET entry == Head(list)
           normalizedKey == normalizeHex(entry.keyHex)
           row == [keyHex |-> normalizedKey,
                   valueHex |-> normalizeHex(entry.valueHex),
                   valueSize |-> entry.valueSize,
                   nodeType |-> entry.nodeType,
                   insertedAt |-> entry.insertedAt]
       IN fromEntriesLoop(
            [rows |-> mapSet(store.rows, normalizedKey, row),
             insertionOrder |-> Append(store.insertionOrder, normalizedKey),
             clock |-> IF entry.insertedAt + 1 > store.clock
                       THEN entry.insertedAt + 1 ELSE store.clock],
            Tail(list))

fromEntries(list) == fromEntriesLoop(EmptyStore, list)

\* entries(): the rows in insertionOrder, keys without a row filtered out
entries(store) ==
  LET present == SelectSeq(store.insertionOrder, LAMBDA k : k \in DOMAIN store.rows)
  IN [i \in 1..Len(present) |-> store.rows[present[i]]]

clone(store) == fromEntries(entries(store))

clear(store) == EmptyStore

\* get(): [defined, valueHex]; defined = FALSE stands for undefined
\* get() answering an absent key with an empty value
getOrEmpty(store, keyHex) ==
  LET key == normalizeHex(keyHex)
  IN IF key \in DOMAIN store.rows
     THEN [defined |-> TRUE, valueHex |-> store.rows[key].valueHex]
     ELSE [defined |-> TRUE, valueHex |-> <<"0", "x">>]

get(store, keyHex) ==
  LET key == normalizeHex(keyHex)
  IN IF key \in DOMAIN store.rows
     THEN [defined |-> TRUE, valueHex |-> store.rows[key].valueHex]
     ELSE [defined |-> FALSE, valueHex |-> << >>]

\* put() as an upsert: an existing row takes the value and the type given
putOverwriting(store, keyHex, valueHex, nodeType) ==
  LET key == normalizeHex(keyHex)
      value == normalizeHex(valueHex)
  IN IF key \in DOMAIN store.rows
     THEN LET written == [store.rows[key] EXCEPT !.valueHex = value,
                                                 !.valueSize = bytesSizeFromHex(value),
                                                 !.nodeType = nodeType]
          IN [store |-> [store EXCEPT !.rows = mapSet(store.rows, key, written)],
              isNew |-> FALSE,
              entry |-> written]
     ELSE LET entry == [keyHex |-> key,
                        valueHex |-> value,
                        valueSize |-> bytesSizeFromHex(value),
                        nodeType |-> nodeType,
                        insertedAt |-> store.clock]
          IN [store |-> [rows |-> mapSet(store.rows, key, entry),
                         insertionOrder |-> Append(store.insertionOrder, key),
                         clock |-> store.clock + 1],
              isNew |-> TRUE,
              entry |-> entry]

\* put(): [store, isNew, entry]
put(store, keyHex, valueHex, nodeType) ==
  LET key == normalizeHex(keyHex)
      value == normalizeHex(valueHex)
  IN IF key \in DOMAIN store.rows
     THEN LET existing == store.rows[key]
              upgraded == IF existing.nodeType = "unknown" /\ nodeType # "unknown"
                          THEN [existing EXCEPT !.nodeType = nodeType]
                          ELSE existing
          IN [store |-> [store EXCEPT !.rows = mapSet(store.rows, key, upgraded)],
              isNew |-> FALSE,
              entry |-> upgraded]
     ELSE LET entry == [keyHex |-> key,
                        valueHex |-> value,
                        valueSize |-> bytesSizeFromHex(value),
                        nodeType |-> nodeType,
                        insertedAt |-> store.clock]
          IN [store |-> [rows |-> mapSet(store.rows, key, entry),
                         insertionOrder |-> Append(store.insertionOrder, key),
                         clock |-> store.clock + 1],
              isNew |-> TRUE,
              entry |-> entry]

\* ------------------------------------------------------------------------
\* trie.ts
\*
\* TrieOperationOptions is split in two: `options` holds the flags
\* [useCache, hasCache, emitDbGetEvents, hasTrace] and `ctx` the objects
\* the call can change, [db, cache, trace]: the store, the cache Map (a
\* function from key to node bytes) and the events handed to the trace
\* sink so far.  Every engine operator returns the ctx it leaves behind,
\* also when it throws.  A TraceEvent keeps the fields [kind, consumed,
\* keyRemainder, activeNodeId, changedNodeId, dbKeyHex, dbAction,
\* cacheHit]; an absent string is << >>.
\* ------------------------------------------------------------------------

NoId == << >>

\* emit putting the event before the events reported so far
emitFirst(options, ctx, event) ==
  IF options.hasTrace THEN [ctx EXCEPT !.trace = <<event>> \o ctx.trace] ELSE ctx

emit(options, ctx, event) ==
  IF options.hasTrace THEN [ctx EXCEPT !.trace = Append(ctx.trace, event)] ELSE ctx

traceEvent(kind, consumed, keyRemainder, activeNodeId, changedNodeId) ==
  [kind |-> kind, consumed |-> consumed, keyRemainder |-> keyRemainder,
   activeNodeId |-> activeNodeId, changedNodeId |-> changedNodeId,
   dbKeyHex |-> NoId, dbAction |-> "", cacheHit |-> FALSE]

\* A db event that does not name the key
dbEventUnkeyed(kind, consumed, keyRemainder, activeNodeId, keyHex, action, cacheHit) ==
  [kind |-> kind, consumed |-> consumed, keyRemainder |-> keyRemainder,
   activeNodeId |-> activeNodeId, changedNodeId |-> activeNodeId,
   dbKeyHex |-> NoId, dbAction |-> action, cacheHit |-> cacheHit]

dbEvent(kind, consumed, keyRemainder, activeNodeId, keyHex, action, cacheHit) ==
  [kind |-> kind, consumed |-> consumed, keyRemainder |-> keyRemainder,
   activeNodeId |-> activeNodeId, changedNodeId |-> activeNodeId,
   dbKeyHex |-> keyHex, dbAction |-> action, cacheHit |-> cacheHit]

min(a, b) == IF a < b THEN a ELSE b

\* The loop of commonPrefixLength leaving after one pass
commonPrefixFromOnce(a, b, i) ==
  IF i < min(Len(a), Len(b)) /\ a[i + 1] = b[i + 1] THEN i + 1 ELSE i

RECURSIVE commonPrefixFrom(_, _, _)
commonPrefixFrom(a, b, i) ==
  IF i < min(Len(a), Len(b)) /\ a[i + 1] = b[i + 1]
  THEN commonPrefixFrom(a, b, i + 1)
  ELSE i

\* commonPrefixLength counting positions without comparing them
commonPrefixLengthUncompared(a, b) == min(Len(a), Len(b))

commonPrefixLength(a, b) == commonPrefixFrom(a, b, 0)

startsWith(source, prefix) ==
  /\ Len(prefix) <= Len(source)
  /\ \A i \in 1..Len(prefix) : source[i] = prefix[i]

\* array.slice that drops nothing
sliceWhole(seq, from) == seq

\* array.slice(from): the elements after the first `from`
slice(seq, from) == SubSeq(seq, from + 1, Len(seq))

\* emptyBranch with a reference to a node that was never stored in slot 0
emptyBranchDangling(value) ==
  [type |-> "branch",
   children |-> [i \in 1..BranchWidth |-> IF i = 1 THEN keccak(<<0>>) ELSE EMPTY_BYTES],
   value |-> value]

emptyBranch(value) ==
  [type |-> "branch",
   children |-> SubSeq([i \in 1..BranchWidth |-> EMPTY_BYTES], 1, BranchWidth),
   value |-> value]

\* setChild writing the slot after the one asked for
setChildNextSlot(branch, index, ref) ==
  [branch EXCEPT !.children[((index + 1) % BranchWidth) + 1] = ref]

\* children[index] = ref on a JS array: index 16 grows the array
setChild(branch, index, ref) ==
  IF index < Len(branch.children)
  THEN [branch EXCEPT !.children[index + 1] = ref]
  ELSE [branch EXCEPT !.children = Append(branch.children, ref)]

\* [err, node, rlp, id, ctx]
resolveNode(ref, consumed, keyRemainder, options, ctx) ==
  LET keyHex == bytesToHex(ref)
      fromCache == options.useCache /\ options.hasCache /\ keyHex \in DOMAIN ctx.cache
      dbHex == get(ctx.db, keyHex)
      \* return {node: decodeTrieNode(rlp), rlp, id: nodeIdFromRef(ref)}
      decodedFrom(rlp, ctx2) ==
        With(decodeTrieNode(rlp), LAMBDA decoded :
          IF decoded.err # ""
          THEN [err |-> decoded.err, node |-> NoNode, rlp |-> rlp, id |-> NoId, ctx |-> ctx2]
          ELSE [err |-> "", node |-> decoded.node, rlp |-> rlp, id |-> nodeIdFromRef(ref),
                ctx |-> ctx2])
      \* the rest of the 32-byte case, once rlp is read from the cache or the store
      fetched(rlp) ==
        LET ctx1 == IF ~fromCache /\ options.useCache /\ options.hasCache
                    THEN [ctx EXCEPT !.cache = mapSet(ctx.cache, keyHex, rlp)]
                    ELSE ctx
            ctx2 == IF options.emitDbGetEvents
                    THEN emit(options, ctx1,
                              dbEvent("db-get", consumed, keyRemainder, NoId, keyHex, "GET",
                                      fromCache))
                    ELSE ctx1
        IN decodedFrom(rlp, ctx2)
  IN IF Len(ref) # HashLen THEN decodedFrom(ref, ctx)
     ELSE IF fromCache THEN fetched(ctx.cache[keyHex])
     ELSE IF ~dbHex.defined
     THEN [err |-> "MissingNode", node |-> NoNode, rlp |-> << >>, id |-> NoId, ctx |-> ctx]
     ELSE fetched(hexToBytes(dbHex.valueHex))

\* finalizeNode embedding a serialized node of exactly 32 bytes too
finalizeNodeEmbedding32(node, consumed, keyRemainder, options, ctx) ==
  With(encodeTrieNode(node), LAMBDA enc :
    IF enc.err # "" THEN [err |-> enc.err, ref |-> << >>, id |-> NoId, ctx |-> ctx]
    ELSE IF Len(enc.bytes) <= HashLen
    THEN With(nodeIdFromRef(enc.bytes), LAMBDA id :
           [err |-> "", ref |-> enc.bytes, id |-> id,
            ctx |-> emit(options, ctx, traceEvent("finalize", consumed, keyRemainder, id, id))])
    ELSE With(keccak(enc.bytes), LAMBDA hash :
           LET rlp == enc.bytes
               keyHex == bytesToHex(hash)
               stored == put(ctx.db, keyHex, bytesToHex(rlp), node.type)
               ctx1 == [ctx EXCEPT !.db = stored.store]
               ctx2 == IF options.useCache /\ options.hasCache
                       THEN [ctx1 EXCEPT !.cache = mapSet(ctx1.cache, keyHex, rlp)]
                       ELSE ctx1
               ctx3 == emit(options, ctx2,
                            traceEvent("finalize", consumed, keyRemainder, keyHex, keyHex))
               ctx4 == emit(options, ctx3,
                            dbEvent("db-put", consumed, keyRemainder, keyHex, keyHex, "PUT",
                                    FALSE))
           IN [err |-> "", ref |-> hash, id |-> keyHex, ctx |-> ctx4]))

\* [err, ref, id, ctx]
finalizeNode(node, consumed, keyRemainder, options, ctx) ==
  With(encodeTrieNode(node), LAMBDA enc :
    IF enc.err # "" THEN [err |-> enc.err, ref |-> << >>, id |-> NoId, ctx |-> ctx]
    ELSE IF Len(enc.bytes) < HashLen
    THEN With(nodeIdFromRef(enc.bytes), LAMBDA id :
           [err |-> "", ref |-> enc.bytes, id |-> id,
            ctx |-> emit(options, ctx, traceEvent("finalize", consumed, keyRemainder, id, id))])
    ELSE With(keccak(enc.bytes), LAMBDA hash :
           LET rlp == enc.bytes
               keyHex == bytesToHex(hash)
               stored == put(ctx.db, keyHex, bytesToHex(rlp), node.type)
               ctx1 == [ctx EXCEPT !.db = stored.store]
               ctx2 == IF options.useCache /\ options.hasCache
                       THEN [ctx1 EXCEPT !.cache = mapSet(ctx1.cache, keyHex, rlp)]
                       ELSE ctx1
               ctx3 == emit(options, ctx2,
                            traceEvent("finalize", consumed, keyRemainder, keyHex, keyHex))
               ctx4 == emit(options, ctx3,
                            dbEvent("db-put", consumed, keyRemainder, keyHex, keyHex, "PUT",
                                    FALSE))
           IN [err |-> "", ref |-> hash, id |-> keyHex, ctx |-> ctx4]))

\* cloneChildren returning sixteen empty slots
cloneChildrenEmptied(children) == [i \in 1..Len(children) |-> EMPTY_BYTES]

cloneChildren(children) ==
  [i \in 1..Len(children) |->
     IF Len(children[i]) = 0 THEN EMPTY_BYTES ELSE cloneBytes(children[i])]

\* A throw that leaves the store cleared
insertFailedClearing(err, ctx) ==
  [err |-> err, rootRef |-> << >>, changedNodeIds |-> << >>,
   ctx |-> [ctx EXCEPT !.db = clear(ctx.db)]]

\* An InsertOutcome that is a throw
insertFailed(err, ctx) ==
  [err |-> err, rootRef |-> << >>, changedNodeIds |-> << >>, ctx |-> ctx]

\* splitStep forgetting the value the branch holds
splitStepValueless(err, branch, changed, ctx) ==
  [err |-> err, branch |-> [branch EXCEPT !.value = EMPTY_BYTES], changed |-> changed,
   ctx |-> ctx]

\* The first half of a split: st is [err, branch, changed, ctx]
splitStep(err, branch, changed, ctx) ==
  [err |-> err, branch |-> branch, changed |-> changed, ctx |-> ctx]

\* finishSplit wrapping the branch in an extension when nothing is shared too
finishSplitAlwaysWrapped(st, key, value, shared, consumed, options) ==
  LET newRemainder == slice(key, shared)
      \* finalize the branch of st2, then the extension above it
      finishBranch(st2) ==
        With(finalizeNode(st2.branch, consumed + shared, slice(key, shared), options, st2.ctx),
             LAMBDA branchFinal :
          IF branchFinal.err # "" THEN insertFailed(branchFinal.err, branchFinal.ctx)
          ELSE IF shared >= 0
          THEN With(finalizeNode([type |-> "extension", path |-> SubSeq(key, 1, shared),
                                  child |-> branchFinal.ref],
                                 consumed, key, options, branchFinal.ctx),
                    LAMBDA extFinal :
                 IF extFinal.err # "" THEN insertFailed(extFinal.err, extFinal.ctx)
                 ELSE [err |-> "", rootRef |-> extFinal.ref,
                       changedNodeIds |-> st2.changed \o <<branchFinal.id, extFinal.id>>,
                       ctx |-> extFinal.ctx])
          ELSE [err |-> "", rootRef |-> branchFinal.ref,
                changedNodeIds |-> Append(st2.changed, branchFinal.id),
                ctx |-> branchFinal.ctx])
  IN IF st.err # "" THEN insertFailed(st.err, st.ctx)
     ELSE IF Len(newRemainder) = 0
     THEN finishBranch(splitStep("", [st.branch EXCEPT !.value = value], st.changed, st.ctx))
     ELSE With(finalizeNode([type |-> "leaf", path |-> slice(newRemainder, 1),
                             value |-> value],
                            consumed + shared + 1, slice(newRemainder, 1), options, st.ctx),
               LAMBDA newLeaf :
            IF newLeaf.err # "" THEN insertFailed(newLeaf.err, newLeaf.ctx)
            ELSE finishBranch(splitStep("", setChild(st.branch, newRemainder[1], newLeaf.ref),
                                        Append(st.changed, newLeaf.id), newLeaf.ctx)))

\* The second half of a split, the same statements in the leaf case and
\* in the extension case: the new key's remainder goes into the branch,
\* the branch is finalized and, when shared > 0, wrapped in an extension.
finishSplit(st, key, value, shared, consumed, options) ==
  LET newRemainder == slice(key, shared)
      \* finalize the branch of st2, then the extension above it
      finishBranch(st2) ==
        With(finalizeNode(st2.branch, consumed + shared, slice(key, shared), options, st2.ctx),
             LAMBDA branchFinal :
          IF branchFinal.err # "" THEN insertFailed(branchFinal.err, branchFinal.ctx)
          ELSE IF shared > 0
          THEN With(finalizeNode([type |-> "extension", path |-> SubSeq(key, 1, shared),
                                  child |-> branchFinal.ref],
                                 consumed, key, options, branchFinal.ctx),
                    LAMBDA extFinal :
                 IF extFinal.err # "" THEN insertFailed(extFinal.err, extFinal.ctx)
                 ELSE [err |-> "", rootRef |-> extFinal.ref,
                       changedNodeIds |-> st2.changed \o <<branchFinal.id, extFinal.id>>,
                       ctx |-> extFinal.ctx])
          ELSE [err |-> "", rootRef |-> branchFinal.ref,
                changedNodeIds |-> Append(st2.changed, branchFinal.id),
                ctx |-> branchFinal.ctx])
  IN IF st.err # "" THEN insertFailed(st.err, st.ctx)
     ELSE IF Len(newRemainder) = 0
     THEN finishBranch(splitStep("", [st.branch EXCEPT !.value = value], st.changed, st.ctx))
     ELSE With(finalizeNode([type |-> "leaf", path |-> slice(newRemainder, 1),
                             value |-> value],
                            consumed + shared + 1, slice(newRemainder, 1), options, st.ctx),
               LAMBDA newLeaf :
            IF newLeaf.err # "" THEN insertFailed(newLeaf.err, newLeaf.ctx)
            ELSE finishBranch(splitStep("", setChild(st.branch, newRemainder[1], newLeaf.ref),
                                        Append(st.changed, newLeaf.id), newLeaf.ctx)))

\* finalizedOutcome listing the id of the node before the ids of `before`
finalizedOutcomeParentFirst(fin, before) ==
  IF fin.err # "" THEN insertFailed(fin.err, fin.ctx)
  ELSE [err |-> "", rootRef |-> fin.ref, changedNodeIds |-> <<fin.id>> \o before,
        ctx |-> fin.ctx]

\* A finalized node as an InsertOutcome listing `before` and then its id
finalizedOutcome(fin, before) ==
  IF fin.err # "" THEN insertFailed(fin.err, fin.ctx)
  ELSE [err |-> "", rootRef |-> fin.ref, changedNodeIds |-> Append(before, fin.id),
        ctx |-> fin.ctx]

\* [err, rootRef, changedNodeIds, ctx]
RECURSIVE insertAt(_, _, _, _, _, _)
insertAt(ref, key, value, consumed, options, ctx) ==
  IF Len(ref) = 0
  THEN finalizedOutcome(
         finalizeNode([type |-> "leaf", path |-> key, value |-> value], consumed, key,
                      options, emit(options, ctx, traceEvent("decision", consumed, key, NoId, NoId))),
         << >>)
  ELSE
  With(resolveNode(ref, consumed, key, options, ctx), LAMBDA resolved :
  LET node == resolved.node
      ctx1 == emit(options, resolved.ctx, traceEvent("visit", consumed, key, resolved.id, NoId))
      shared == commonPrefixLength(node.path, key)
      oldRemainder == slice(node.path, shared)
      oldIndex == oldRemainder[1]
  IN
  IF resolved.err # "" THEN insertFailed(resolved.err, resolved.ctx)
  ELSE IF node.type = "leaf" THEN
    IF shared = Len(node.path) /\ shared = Len(key)
    THEN finalizedOutcome(
           finalizeNode([type |-> "leaf", path |-> node.path, value |-> value], consumed, key,
                        options,
                        emit(options, ctx1, traceEvent("decision", consumed, key, resolved.id, NoId))),
           << >>)
    ELSE IF Len(oldRemainder) = 0
    THEN finishSplit(splitStep("", emptyBranch(node.value), << >>, ctx1),
                     key, value, shared, consumed, options)
    ELSE With(finalizeNode([type |-> "leaf", path |-> slice(oldRemainder, 1),
                            value |-> node.value],
                           consumed + shared + 1, slice(oldRemainder, 1), options, ctx1),
              LAMBDA oldLeaf :
           finishSplit(IF oldLeaf.err # ""
                       THEN splitStep(oldLeaf.err, emptyBranch(EMPTY_BYTES), << >>, oldLeaf.ctx)
                       ELSE splitStep("", setChild(emptyBranch(EMPTY_BYTES), oldIndex, oldLeaf.ref),
                                      <<oldLeaf.id>>, oldLeaf.ctx),
                       key, value, shared, consumed, options))
  ELSE IF node.type = "extension" THEN
    IF shared = Len(node.path)
    THEN With(insertAt(node.child, slice(key, shared), value, consumed + shared, options, ctx1),
              LAMBDA childInsert :
           IF childInsert.err # "" THEN childInsert
           ELSE finalizedOutcome(
                  finalizeNode([type |-> "extension", path |-> node.path,
                                child |-> childInsert.rootRef],
                               consumed, key, options, childInsert.ctx),
                  childInsert.changedNodeIds))
    ELSE IF Len(oldRemainder) = 1
    THEN finishSplit(splitStep("", setChild(emptyBranch(EMPTY_BYTES), oldIndex, node.child),
                               << >>, ctx1),
                     key, value, shared, consumed, options)
    ELSE With(finalizeNode([type |-> "extension", path |-> slice(oldRemainder, 1),
                            child |-> node.child],
                           consumed + shared + 1, slice(oldRemainder, 1), options, ctx1),
              LAMBDA oldExt :
           finishSplit(IF oldExt.err # ""
                       THEN splitStep(oldExt.err, emptyBranch(EMPTY_BYTES), << >>, oldExt.ctx)
                       ELSE splitStep("", setChild(emptyBranch(EMPTY_BYTES), oldIndex, oldExt.ref),
                                      <<oldExt.id>>, oldExt.ctx),
                       key, value, shared, consumed, options))
  ELSE
    LET nextBranch == [type |-> "branch",
                       children |-> cloneChildren(node.children),
                       value |-> IF Len(node.value) = 0 THEN EMPTY_BYTES
                                 ELSE cloneBytes(node.value)]
        index == key[1]
    IN IF Len(key) = 0
       THEN finalizedOutcome(
              finalizeNode([nextBranch EXCEPT !.value = value], consumed, key, options, ctx1),
              << >>)
       ELSE IF index >= Len(nextBranch.children)
       THEN insertFailed("TypeError", ctx1)
       ELSE With(insertAt(nextBranch.children[index + 1], slice(key, 1), value, consumed + 1,
                          options, ctx1),
                 LAMBDA childUpdate :
              IF childUpdate.err # "" THEN childUpdate
              ELSE finalizedOutcome(
                     finalizeNode(setChild(nextBranch, index, childUpdate.rootRef), consumed, key,
                                  options, childUpdate.ctx),
                     childUpdate.changedNodeIds)))

insertKeyValue(rootRef, key, value, options, ctx) ==
  insertAt(rootRef, key, value, 0, options, ctx)

\* new Uint8Array(numbers): every element is taken modulo 256
toUint8Array(numbers) == [i \in 1..Len(numbers) |-> numbers[i] % 256]

\* A LookupOutcome: [err, found, value, mismatchReason, ctx].  An
\* undefined value is << >> and an undefined mismatchReason is "".  The
\* reasons are the constant parts of the code's messages.
lookupOutcome(err, found, value, mismatchReason, ctx) ==
  [err |-> err, found |-> found, value |-> value, mismatchReason |-> mismatchReason,
   ctx |-> ctx]

lookupMiss(reason, consumed, key, activeNodeId, options, ctx) ==
  lookupOutcome("", FALSE, << >>, reason,
                emit(options, ctx, traceEvent("result", consumed, key, activeNodeId, NoId)))

RECURSIVE lookupAt(_, _, _, _, _)
lookupAt(ref, key, consumed, options, ctx) ==
  IF Len(ref) = 0
  THEN lookupMiss("Missing child reference", consumed, key, NoId, options, ctx)
  ELSE
  With(resolveNode(ref, consumed, key, options, ctx), LAMBDA resolved :
  LET node == resolved.node
      ctx1 == emit(options, resolved.ctx, traceEvent("visit", consumed, key, resolved.id, NoId))
  IN
  IF resolved.err # "" THEN lookupOutcome(resolved.err, FALSE, << >>, "", resolved.ctx)
  ELSE IF node.type = "leaf" THEN
    IF equalBytes(toUint8Array(node.path), toUint8Array(key))
    THEN lookupOutcome("", TRUE, node.value, "",
                       emit(options, ctx1,
                            traceEvent("result", consumed, << >>, resolved.id, NoId)))
    ELSE lookupMiss("Leaf mismatch", consumed, key, resolved.id, options, ctx1)
  ELSE IF node.type = "extension" THEN
    IF ~startsWith(key, node.path)
    THEN lookupMiss("Extension mismatch", consumed, key, resolved.id, options, ctx1)
    ELSE lookupAt(node.child, slice(key, Len(node.path)), consumed + Len(node.path), options,
                  emit(options, ctx1,
                       traceEvent("decision", consumed, slice(key, Len(node.path)),
                                  resolved.id, NoId)))
  ELSE IF Len(key) = 0 THEN
    IF Len(node.value) = 0
    THEN lookupMiss("Branch value slot empty", consumed, key, resolved.id, options, ctx1)
    ELSE lookupOutcome("", TRUE, node.value, "",
                       emit(options, ctx1, traceEvent("result", consumed, key, resolved.id, NoId)))
  ELSE IF key[1] >= Len(node.children)
  THEN lookupOutcome("TypeError", FALSE, << >>, "",
                     emit(options, ctx1,
                          traceEvent("decision", consumed, slice(key, 1), resolved.id, NoId)))
  ELSE lookupAt(node.children[key[1] + 1], slice(key, 1), consumed + 1, options,
                emit(options, ctx1,
                     traceEvent("decision", consumed, slice(key, 1), resolved.id, NoId))))

\* lookupKey leaving a row for the root it was asked about
lookupKeyRecording(rootRef, key, options, ctx) ==
  With(lookupAt(rootRef, key, 0, options, ctx), LAMBDA out :
    [out EXCEPT !.ctx.db = put(out.ctx.db, bytesToHex(keccak(rootRef)), bytesToHex(rootRef),
                               "unknown").store])

lookupKey(rootRef, key, options, ctx) == lookupAt(rootRef, key, 0, options, ctx)

\* describeRoot showing an embedded root itself as its commitment
describeRootUnhashed(ref) ==
  IF Len(ref) = 0
  THEN [isEmpty |-> TRUE, isEmbedded |-> FALSE, rootRefHex |-> <<"0", "x">>,
        commitmentHex |-> bytesToHex(EMPTY_TRIE_ROOT)]
  ELSE [isEmpty |-> FALSE, isEmbedded |-> Len(ref) < HashLen, rootRefHex |-> bytesToHex(ref),
        commitmentHex |-> bytesToHex(ref)]

\* RootDisplay
describeRoot(ref) ==
  IF Len(ref) = 0
  THEN [isEmpty |-> TRUE, isEmbedded |-> FALSE, rootRefHex |-> <<"0", "x">>,
        commitmentHex |-> bytesToHex(EMPTY_TRIE_ROOT)]
  ELSE IF Len(ref) < HashLen
  THEN [isEmpty |-> FALSE, isEmbedded |-> TRUE, rootRefHex |-> bytesToHex(ref),
        commitmentHex |-> bytesToHex(keccak(ref))]
  ELSE [isEmpty |-> FALSE, isEmbedded |-> FALSE, rootRefHex |-> bytesToHex(ref),
        commitmentHex |-> bytesToHex(ref)]

\* [err, node, rlp]: the node behind a reference, read for display
resolveNodeWithoutTrace(ref, store) ==
  IF Len(ref) = 0 THEN [err |-> "EmptyReference", node |-> NoNode, rlp |-> << >>]
  ELSE With(IF Len(ref) = HashLen
            THEN IF get(store, bytesToHex(ref)).defined
                 THEN hexToBytes(get(store, bytesToHex(ref)).valueHex)
                 ELSE hexToBytes(<< >>)
            ELSE ref,
            LAMBDA rlp :
         IF Len(rlp) = 0 THEN [err |-> "MissingNode", node |-> NoNode, rlp |-> << >>]
         ELSE With(decodeTrieNode(rlp), LAMBDA decoded :
                [err |-> decoded.err, node |-> decoded.node, rlp |-> rlp]))

\* ------------------------------------------------------------------------
\* The engine as a state machine: one store, the root threaded from one
\* insert into the next (simulator.ts, trie.test.ts buildRoot), lookups
\* against the current root.
\* ------------------------------------------------------------------------

VARIABLES
  db,       \* the InMemoryKvStore handed to every engine call
  rootRef,  \* the root returned by the last successful insert
  hist,     \* the <<key, value>> pairs of the successful inserts so far, in order
  roots,    \* every root returned so far, with the lookups it answered then
  last      \* the last engine call: its inputs, the store before it, its outcome

vars == <<db, rootRef, hist, roots, last>>

MaxInserts == 3

ShortValue == <<9>>
LongValue == SubSeq([i \in 1..33 |-> 7], 1, 33)

\* Account values are never empty in the application; the engine accepts
\* an empty value, so the model inserts it too.
Values == {EMPTY_BYTES, ShortValue, LongValue}

Keys == {<<1>>, <<1, 2, 3>>, <<1, 2, 4>>, <<2>>}

\* Keys that are looked up: the inserted keys, a strict prefix of stored
\* keys, an extension of a stored key and the empty key.
ProbeKeys == Keys \cup {<< >>, <<1, 2>>, <<1, 2, 3, 4>>}

\* A 32-byte reference that no store of the model holds
DanglingRef == keccak(<<0>>)

\* simulateUpdate / simulateLookup: a fresh cache and a trace sink per call
callOptions(useCache) ==
  [useCache |-> useCache, hasCache |-> TRUE, emitDbGetEvents |-> TRUE, hasTrace |-> TRUE]

\* A context whose cache was left by another call and answers every key
\* of the store with bytes that are no node
freshCtxStale(store) ==
  [db |-> store, cache |-> [k \in DOMAIN store.rows |-> <<192>>], trace |-> << >>]

freshCtx(store) == [db |-> store, cache |-> << >>, trace |-> << >>]

\* What a caller sees of a LookupOutcome
seen(out) ==
  [err |-> out.err, found |-> out.found, value |-> out.value,
   mismatchReason |-> out.mismatchReason]

\* The answers of root `ref` on store `store` for every probe key
viewOf(ref, store) ==
  [k \in ProbeKeys |-> seen(lookupKey(ref, k, callOptions(FALSE), freshCtx(store)))]

NoCall ==
  [op |-> "none", key |-> << >>, value |-> << >>, useCache |-> FALSE, root |-> << >>,
   dbBefore |-> EmptyStore, err |-> "", found |-> FALSE, outValue |-> << >>,
   mismatchReason |-> "", changedNodeIds |-> << >>, trace |-> << >>]

Init ==
  /\ db = EmptyStore
  /\ rootRef = EMPTY_BYTES
  /\ hist = << >>
  /\ roots = <<[ref |-> EMPTY_BYTES, view |-> viewOf(EMPTY_BYTES, EmptyStore)]>>
  /\ last = NoCall

\* The engine is synchronous and single-threaded: a call is made when the
\* caller holds no unread outcome.
Idle == last.op = "none"

\* The assignments of an insert whose outcome is `out`
recordInsert(key, value, useCache, out) ==
  /\ db' = out.ctx.db
  /\ rootRef' = IF out.err = "" THEN out.rootRef ELSE rootRef
  /\ hist' = IF out.err = "" THEN Append(hist, <<key, value>>) ELSE hist
  /\ roots' = IF out.err = ""
              THEN Append(roots, [ref |-> out.rootRef,
                                  view |-> viewOf(out.rootRef, out.ctx.db)])
              ELSE roots
  /\ last' = [NoCall EXCEPT !.op = "insert", !.key = key, !.value = value,
                            !.useCache = useCache, !.root = rootRef,
                            !.dbBefore = db, !.err = out.err,
                            !.changedNodeIds = out.changedNodeIds,
                            !.trace = out.ctx.trace]

\* rootRef = insertKeyValue(rootRef, key, value, {db, ...}).rootRef
Insert(key, value, useCache) ==
  /\ Idle
  /\ Len(hist) < MaxInserts
  /\ recordInsert(key, value, useCache,
                  insertKeyValue(rootRef, key, value, callOptions(useCache), freshCtx(db)))

\* The assignments of a lookup whose outcome is `out`
recordLookup(ref, key, useCache, out) ==
  /\ db' = out.ctx.db
  /\ last' = [NoCall EXCEPT !.op = "lookup", !.key = key, !.useCache = useCache,
                            !.root = ref, !.dbBefore = db, !.err = out.err,
                            !.found = out.found, !.outValue = out.value,
                            !.mismatchReason = out.mismatchReason,
                            !.trace = out.ctx.trace]
  /\ UNCHANGED <<rootRef, hist, roots>>

\* lookupKey(ref, key, {db, ...}) on the current root or on a reference
\* the store does not hold
Lookup(ref, key, useCache) ==
  /\ Idle
  /\ recordLookup(ref, key, useCache,
                  lookupKey(ref, key, callOptions(useCache), freshCtx(db)))

\* The caller takes the outcome of the call
Return ==
  /\ ~Idle
  /\ last' = NoCall
  /\ UNCHANGED <<db, rootRef, hist, roots>>

Next ==
  \/ \E key \in Keys, value \in Values : Insert(key, value, TRUE)
  \/ \E key \in ProbeKeys, useCache \in BOOLEAN : Lookup(rootRef, key, useCache)
  \/ Lookup(DanglingRef, <<1>>, FALSE)
  \/ Return

Spec == Init /\ [][Next]_vars

\* ------------------------------------------------------------------------
\* Properties of the engine
\* ------------------------------------------------------------------------

\* The key set K of the inserts so far
insertedKeys == {hist[i][1] : i \in 1..Len(hist)}

distinctKeys == \A i, j \in 1..Len(hist) : i # j => hist[i][1] # hist[j][1]

nonEmptyValues == \A i \in 1..Len(hist) : Len(hist[i][2]) > 0

\* The last call was a lookupKey on the root of all the inserts so far
lookedUpOnFinalRoot == last.op = "lookup" /\ last.root = rootRef

\* The last call answered found = true with the value inserted for its key
foundAsInserted ==
  \A i \in 1..Len(hist) :
    hist[i][1] = last.key => last.err = "" /\ last.found /\ last.outValue = hist[i][2]

\* C1 as stated: after inserts with pairwise distinct keys from the empty
\* root on one store, lookupKey on the final root answers found = true and
\* the inserted value for every inserted key, whatever the values are.
C1_AnyValueFound == lookedUpOnFinalRoot /\ distinctKeys => foundAsInserted

\* C1 amended: after inserts with pairwise distinct keys and non-empty
\* values from the empty root on one store, lookupKey on the final root
\* answers found = true and exactly the inserted value for every inserted
\* key.
C1_NonEmptyValueFound ==
  lookedUpOnFinalRoot /\ distinctKeys /\ nonEmptyValues => foundAsInserted

\* Three distinct keys, one a prefix of another, and the prefix is found
\* in the value slot of a branch.
C1_Witness ==
  /\ lookedUpOnFinalRoot /\ distinctKeys /\ nonEmptyValues
  /\ Len(hist) = MaxInserts
  /\ {<<1>>, <<1, 2, 3>>} \subseteq insertedKeys
  /\ last.key = <<1>>
  /\ last.found
  /\ last.outValue = LongValue

\* C2: after an insert or update on the same store, every root returned
\* so far answers every key as it did when it was produced.
C2_RootsPersistent ==
  last.op = "insert" =>
    \A i \in 1..Len(roots) : viewOf(roots[i].ref, db) = roots[i].view

\* An update of a key: the old root still shows the old value, the new
\* root the new one.
C2_Witness ==
  /\ last.op = "insert" /\ last.err = ""
  /\ Len(roots) >= 3
  /\ LET old == roots[Len(roots) - 1]
     IN /\ old.view[last.key].found
        /\ old.view[last.key].value # last.value
        /\ viewOf(old.ref, db)[last.key].value = old.view[last.key].value
        /\ viewOf(rootRef, db)[last.key].found
        /\ viewOf(rootRef, db)[last.key].value = last.value

\* The last call inserted a value its key already had under the root it
\* was given
reinsertedSameValue ==
  /\ last.op = "insert" /\ last.err = ""
  /\ Len(roots) >= 2
  /\ roots[Len(roots) - 1].ref = last.root
  /\ roots[Len(roots) - 1].view[last.key].found
  /\ roots[Len(roots) - 1].view[last.key].value = last.value

\* C4: inserting the value a key already has under root r returns r and
\* leaves the rows of the store as they were.
C4_IdempotentUpdate ==
  reinsertedSameValue =>
    /\ rootRef = last.root
    /\ entries(db) = entries(last.dbBefore)
    /\ db.clock = last.dbBefore.clock

\* A key below an extension and a branch is inserted again with its
\* value, on a store that holds rows.
C4_Witness ==
  /\ reinsertedSameValue
  /\ {<<1, 2, 3>>, <<1, 2, 4>>} \subseteq insertedKeys
  /\ last.key = <<1, 2, 3>>
  /\ Len(entries(db)) > 0
  /\ rootRef = last.root

\* C6: lookupKey leaves the store as it was, with the cache on or off,
\* the key found or not, the call failing or not, and its trace holds no
\* finalize and no PUT.
C6_LookupReadOnly ==
  last.op = "lookup" =>
    /\ db = last.dbBefore
    /\ \A i \in 1..Len(last.trace) :
         last.trace[i].kind \notin {"finalize", "db-put"} /\ last.trace[i].dbAction # "PUT"

\* A lookup with the cache on that read a row of the store and found its
\* key.
C6_Witness ==
  /\ last.op = "lookup" /\ last.useCache /\ last.found
  /\ Len(entries(db)) > 0
  /\ \E i \in 1..Len(last.trace) : last.trace[i].kind = "db-get"
  /\ db = last.dbBefore

\* C7: on the root of the inserts of key set K, lookupKey of a key outside
\* K answers found = false with a mismatch reason.
C7_NoFalsePositive ==
  lookedUpOnFinalRoot /\ last.key \notin insertedKeys =>
    last.err = "" /\ ~last.found /\ last.mismatchReason # ""

\* A strict prefix of two stored keys is looked up and missed.
C7_Witness ==
  /\ lookedUpOnFinalRoot
  /\ insertedKeys = {<<1, 2, 3>>, <<1, 2, 4>>}
  /\ last.key = <<1, 2>>
  /\ ~last.found
  /\ last.mismatchReason = "Branch value slot empty"

\* ------------------------------------------------------------------------
\* finalizeNode on its own: single nodes are finalized against one store
\* ------------------------------------------------------------------------

\* The most rows a store is grown to by single finalizeNode and put calls
MaxRows == 3

Value28 == SubSeq([i \in 1..28 |-> 5], 1, 28)
Value29 == SubSeq([i \in 1..29 |-> 5], 1, 29)

\* Nodes whose serialization is short, 31 bytes, 32 bytes and longer, and
\* two nodes encodeTrieNode rejects
FinNodes ==
  { [type |-> "leaf", path |-> <<1, 2>>, value |-> ShortValue],
    [type |-> "leaf", path |-> << >>, value |-> Value28],
    [type |-> "leaf", path |-> << >>, value |-> Value29],
    [type |-> "leaf", path |-> <<1, 2, 3>>, value |-> LongValue],
    [type |-> "extension", path |-> <<1>>, child |-> DanglingRef],
    [type |-> "extension", path |-> <<1, 2>>, child |-> <<194, 32, 9>>],
    emptyBranch(EMPTY_BYTES),
    setChild(emptyBranch(ShortValue), 3, DanglingRef),
    setChild(emptyBranch(EMPTY_BYTES), BranchWidth, EMPTY_BYTES),
    [type |-> "leaf", path |-> <<16>>, value |-> ShortValue] }

\* The assignments of a finalizeNode call whose outcome is `out`
recordFinalize(node, useCache, out) ==
  /\ db' = out.ctx.db
  /\ last' = [op |-> "finalize", node |-> node, useCache |-> useCache, dbBefore |-> db,
              err |-> out.err, ref |-> out.ref, id |-> out.id,
              cache |-> out.ctx.cache, trace |-> out.ctx.trace]
  /\ UNCHANGED <<rootRef, hist, roots>>

\* finalizeNode(node, 0, [], message, {db, ...})
Finalize(node, useCache) ==
  /\ Idle
  /\ Len(db.insertionOrder) < MaxRows
  /\ recordFinalize(node, useCache,
                    finalizeNode(node, 0, << >>, callOptions(useCache), freshCtx(db)))

InitFin ==
  /\ db = EmptyStore
  /\ rootRef = EMPTY_BYTES
  /\ hist = << >>
  /\ roots = << >>
  /\ last = NoCall

NextFin ==
  \/ \E node \in FinNodes, useCache \in BOOLEAN : Finalize(node, useCache)
  \/ Return

SpecFin == InitFin /\ [][NextFin]_vars

\* The rows of a store under one key
rowsKeyed(store, keyHex) == SelectSeq(entries(store), LAMBDA e : e.keyHex = keyHex)

\* C3: a finalized node shorter than 32 bytes is returned as its own
\* bytes and the store is not written; any other is returned as the hash
\* of its bytes and the store then holds exactly one row under the hex of
\* the hash, whose value is the hex of the bytes.
C3_EmbedOrHash ==
  last.op = "finalize" /\ last.err = "" =>
    LET rlp == encodeTrieNode(last.node).bytes
        hash == keccak(rlp)
    IN IF Len(rlp) < HashLen
       THEN last.ref = rlp /\ db = last.dbBefore
       ELSE /\ last.ref = hash
            /\ Len(last.ref) = HashLen
            /\ Len(rowsKeyed(db, bytesToHex(hash))) = 1
            /\ rowsKeyed(db, bytesToHex(hash))[1].valueHex = bytesToHex(rlp)

\* A node of exactly 32 serialized bytes is finalized on a store that
\* holds other rows, and a row is added for it.
C3_Witness ==
  /\ last.op = "finalize" /\ last.err = ""
  /\ Len(encodeTrieNode(last.node).bytes) = HashLen
  /\ Len(entries(last.dbBefore)) > 0
  /\ Len(entries(db)) = Len(entries(last.dbBefore)) + 1
  /\ last.ref = keccak(encodeTrieNode(last.node).bytes)

\* ------------------------------------------------------------------------
\* The store on its own: put, clone and fromEntries called directly, next
\* to engine calls on the same store
\* ------------------------------------------------------------------------

\* The key under which the engine stores the leaf of key [1] and LongValue
EngineLeafKey ==
  bytesToHex(keccak(encodeTrieNode([type |-> "leaf", path |-> <<1>>, value |-> LongValue]).bytes))

\* Keys as callers write them, prefixed and bare upper case, and a key the
\* engine writes too
KvKeys == {<<"0", "x", "a", "b">>, <<"A", "B">>, EngineLeafKey}

KvValues == {<<"0", "x", "0", "1">>, <<"0", "2", "0", "3">>}

NodeTypes == {"unknown", "leaf", "branch"}

KvEngineKeys == {<<1>>, <<2>>}

\* A DbEntry
dbRow(keyHex, valueHex, nodeType, insertedAt) ==
  [keyHex |-> keyHex, valueHex |-> valueHex, valueSize |-> bytesSizeFromHex(valueHex),
   nodeType |-> nodeType, insertedAt |-> insertedAt]

\* DbEntry lists a caller hands to fromEntries: one with a key in two
\* spellings, one with two keys
CallerLists ==
  { <<dbRow(<<"0", "x", "a", "b">>, <<"0", "x", "0", "1">>, "leaf", 0),
      dbRow(<<"0", "x", "A", "B">>, <<"0", "x", "0", "2">>, "leaf", 1)>>,
    <<dbRow(<<"0", "x", "a", "b">>, <<"0", "x", "0", "1">>, "unknown", 0),
      dbRow(<<"0", "x", "c", "d">>, <<"0", "x", "0", "2">>, "leaf", 1)>> }

\* The assignments of a put whose outcome is `out`
recordPut(keyHex, valueHex, nodeType, out) ==
  /\ db' = out.store
  /\ last' = [op |-> "put", keyHex |-> keyHex, valueHex |-> valueHex, nodeType |-> nodeType,
              dbBefore |-> db, isNew |-> out.isNew, entry |-> out.entry]
  /\ UNCHANGED <<rootRef, hist, roots>>

\* db.put(keyHex, valueHex, nodeType)
Put(keyHex, valueHex, nodeType) ==
  /\ Idle
  /\ normalizeHex(keyHex) \in DOMAIN db.rows \/ Len(db.insertionOrder) < MaxRows
  /\ recordPut(keyHex, valueHex, nodeType, put(db, keyHex, valueHex, nodeType))

\* db = db.clone()
Clone ==
  /\ Idle
  /\ db' = clone(db)
  /\ last' = [op |-> "clone", dbBefore |-> db]
  /\ UNCHANGED <<rootRef, hist, roots>>

\* db = InMemoryKvStore.fromEntries(list), the start of a trie of its own
FromEntries(list) ==
  /\ Idle
  /\ db' = fromEntries(list)
  /\ rootRef' = EMPTY_BYTES
  /\ hist' = << >>
  /\ roots' = << >>
  /\ last' = [op |-> "fromEntries", list |-> list, dbBefore |-> db]

InitKv ==
  /\ db = EmptyStore
  /\ rootRef = EMPTY_BYTES
  /\ hist = << >>
  /\ roots = << >>
  /\ last = NoCall

NextKv ==
  \/ \E keyHex \in KvKeys, valueHex \in KvValues, nodeType \in NodeTypes :
       Put(keyHex, valueHex, nodeType)
  \/ Clone
  \/ \E list \in CallerLists : FromEntries(list)
  \/ \E key \in KvEngineKeys : Len(db.insertionOrder) < MaxRows /\ Insert(key, LongValue, TRUE)
  \/ \E key \in KvEngineKeys : Lookup(rootRef, key, TRUE)
  \/ Return

SpecKv == InitKv /\ [][NextKv]_vars

\* Every row of `before` is in `after` at the same position with the same
\* key, value, size and insertedAt, and its nodeType is the same or went
\* from 'unknown' to a known type
rowsKept(before, after) ==
  LET e == entries(before)
      f == entries(after)
  IN /\ Len(f) >= Len(e)
     /\ \A i \in 1..Len(e) :
          /\ f[i].keyHex = e[i].keyHex
          /\ f[i].valueHex = e[i].valueHex
          /\ f[i].valueSize = e[i].valueSize
          /\ f[i].insertedAt = e[i].insertedAt
          /\ \/ f[i].nodeType = e[i].nodeType
             \/ e[i].nodeType = "unknown" /\ f[i].nodeType # "unknown"

\* The last call was a put to a key the store already held
putToExistingKey ==
  last.op = "put" /\ normalizeHex(last.keyHex) \in DOMAIN last.dbBefore.rows

\* C8: a put, an engine insert and an engine lookup keep every row, its
\* value, size, insertedAt and position; only a nodeType 'unknown' may
\* become a known type; a put to an existing key adds no row and leaves
\* the clock, whatever value it is given.
C8_RowsWriteOnce ==
  last.op \in {"put", "insert", "lookup"} =>
    /\ rowsKept(last.dbBefore, db)
    /\ putToExistingKey =>
         /\ Len(entries(db)) = Len(entries(last.dbBefore))
         /\ db.clock = last.dbBefore.clock
         /\ db.insertionOrder = last.dbBefore.insertionOrder

\* A put of another value and a known type to a key whose row had the
\* type 'unknown': the row keeps its value and takes the type.
C8_Witness ==
  /\ putToExistingKey
  /\ last.nodeType = "leaf"
  /\ last.dbBefore.rows[normalizeHex(last.keyHex)].nodeType = "unknown"
  /\ last.dbBefore.rows[normalizeHex(last.keyHex)].valueHex # normalizeHex(last.valueHex)
  /\ db.rows[normalizeHex(last.keyHex)].nodeType = "leaf"
  /\ db.rows[normalizeHex(last.keyHex)].valueHex
       = last.dbBefore.rows[normalizeHex(last.keyHex)].valueHex
  /\ Len(entries(db)) >= 2

\* C9: entries() of a store reached from the empty store or from
\* fromEntries by put and clone lists every normalized key once, with
\* strictly increasing insertedAt along the list.
C9_EntriesUniqueOrdered ==
  LET e == entries(db)
  IN /\ \A i, j \in 1..Len(e) : i # j => e[i].keyHex # e[j].keyHex
     /\ \A i \in 1..(Len(e) - 1) : e[i].insertedAt < e[i + 1].insertedAt

\* ------------------------------------------------------------------------
\* The compact path codec on its own: a path is encoded, then decoded
\* ------------------------------------------------------------------------

MaxPathLen == 3

NibblePaths == UNION {[1..k -> 0..15] : k \in 0..MaxPathLen}

InitCodec ==
  /\ db = EmptyStore
  /\ rootRef = EMPTY_BYTES
  /\ hist = << >>
  /\ roots = << >>
  /\ last \in {[op |-> "path", nibbles |-> n, isLeaf |-> f] : n \in NibblePaths, f \in BOOLEAN}

\* encoded = encodeCompactPath(nibbles, isLeaf)
EncodePath ==
  /\ last.op = "path"
  /\ last' = [op |-> "encoded", nibbles |-> last.nibbles, isLeaf |-> last.isLeaf,
              encoded |-> encodeCompactPath(last.nibbles, last.isLeaf)]
  /\ UNCHANGED <<db, rootRef, hist, roots>>

\* decoded = decodeCompactPath(encoded)
DecodePath ==
  /\ last.op = "encoded"
  /\ last.encoded.err = ""
  /\ last' = [op |-> "decoded", nibbles |-> last.nibbles, isLeaf |-> last.isLeaf,
              bytes |-> last.encoded.bytes,
              decoded |-> decodeCompactPath(last.encoded.bytes)]
  /\ UNCHANGED <<db, rootRef, hist, roots>>

NextCodec == EncodePath \/ DecodePath

SpecCodec == InitCodec /\ [][NextCodec]_vars

\* C10: every nibble sequence, empty, odd or even, with either flag, is
\* encoded without an error and decodes to the same nibbles and flag.
C10_CompactPathRoundTrip ==
  /\ last.op = "encoded" => last.encoded.err = ""
  /\ last.op = "decoded" =>
       /\ last.decoded.err = ""
       /\ last.decoded.nibbles = last.nibbles
       /\ last.decoded.isLeaf = last.isLeaf

\* An even-length leaf path, which takes the pad nibble, came back.
C10_Witness ==
  /\ last.op = "decoded"
  /\ Len(last.nibbles) = 2
  /\ last.isLeaf
  /\ last.nibbles[2] = 15
  /\ last.decoded.nibbles = last.nibbles
  /\ last.decoded.isLeaf

\* ------------------------------------------------------------------------
\* The node codec on its own: a node is encoded and the bytes decoded
\* (nodeCodec.test.ts), and byte strings that no encodeTrieNode wrote are
\* decoded
\* ------------------------------------------------------------------------

Filled(n, byte) == SubSeq([i \in 1..n |-> byte], 1, n)

\* An embedded child reference: the serialization of a short leaf
EmbeddedRef == <<194, 32, 9>>

NodePaths == {<< >>, <<1>>, <<15>>, <<0, 0>>, <<1, 2>>, <<1, 2, 3>>, <<15, 0, 12>>}

\* Values: empty, one byte that RLP writes as itself, one byte it prefixes,
\* two bytes, and values past the short-string and the one-byte-length forms
NodeValues == {EMPTY_BYTES, <<1>>, <<128>>, <<222, 173>>, LongValue, Filled(56, 3)}

NodeRefs == {EmbeddedRef, Filled(HashLen, 17), DanglingRef}

BranchChildren ==
  {[i \in 1..BranchWidth |-> EMPTY_BYTES],
   [i \in 1..BranchWidth |-> IF i = 11 THEN Filled(HashLen, 170) ELSE EMPTY_BYTES],
   [i \in 1..BranchWidth |-> IF i \in {4, 5} THEN EmbeddedRef ELSE EMPTY_BYTES],
   [i \in 1..BranchWidth |-> IF i = 1 THEN EmbeddedRef ELSE Filled(HashLen, i)]}

TrieNodes ==
  {[type |-> "leaf", path |-> p, value |-> v] : p \in NodePaths, v \in NodeValues}
  \cup {[type |-> "extension", path |-> p, child |-> c] : p \in NodePaths, c \in NodeRefs}
  \cup {[type |-> "branch", children |-> c, value |-> v] :
          c \in BranchChildren, v \in NodeValues}

\* Serializations that are not nodes: lists of 0, 1, 3, 16 and 18 items, a
\* byte string in place of the list, a list in place of a field, a compact
\* path of no bytes, and bytes that are not RLP
ForeignEncodings ==
  {rlpEncodeList(Filled(n, <<1>>)) : n \in {0, 1, 3, 16, 18}}
  \cup {rlpEncodeBytes(<<32, 9>>),
        rlpEncodeList(<<EMPTY_BYTES, <<9>>>>),
        <<196, 193, 32, 9>>,
        <<195, 32, 192>>,
        <<194, 32>>,
        <<194, 32, 9, 9>>}

\* Serializations of 2 and 17 items as another implementation writes them
WellFormedEncodings ==
  {rlpEncodeList(Filled(17, <<1>>)),
   rlpEncodeList(Filled(17, EMPTY_BYTES)),
   rlpEncodeList(<<(<<32>>), <<9>>>>),
   rlpEncodeList(<<(<<0>>), <<9>>>>),
   rlpEncodeList(<<(<<63>>), <<9>>>>),
   rlpEncodeList(<<(<<17>>), EmbeddedRef>>),
   rlpEncodeList(<<(<<49>>), EMPTY_BYTES>>)}

InitNode ==
  /\ db = EmptyStore
  /\ rootRef = EMPTY_BYTES
  /\ hist = << >>
  /\ roots = << >>
  /\ last \in {[op |-> "node", node |-> n] : n \in TrieNodes}
            \cup {[op |-> "encoded", node |-> NoNode, encoded |-> [err |-> "", bytes |-> b]] :
                    b \in ForeignEncodings \cup WellFormedEncodings}

\* encoded = encodeTrieNode(node)
EncodeNode ==
  /\ last.op = "node"
  /\ last' = [op |-> "encoded", node |-> last.node, encoded |-> encodeTrieNode(last.node)]
  /\ UNCHANGED <<db, rootRef, hist, roots>>

\* decoded = decodeTrieNode(encoded)
DecodeNode ==
  /\ last.op = "encoded"
  /\ last.encoded.err = ""
  /\ last' = [op |-> "decoded", node |-> last.node, bytes |-> last.encoded.bytes,
              decoded |-> decodeTrieNode(last.encoded.bytes)]
  /\ UNCHANGED <<db, rootRef, hist, roots>>

SpecNode == InitNode /\ [][EncodeNode \/ DecodeNode]_vars

\* C11: every leaf, extension and 16-slot branch is encoded without an
\* error, and decoding the bytes gives the node back: the same variant,
\* path, child reference, children and value.
C11_NodeRoundTrip ==
  /\ last.op = "encoded" /\ last.node # NoNode => last.encoded.err = ""
  /\ last.op = "decoded" /\ last.node # NoNode =>
       /\ last.decoded.err = ""
       /\ last.decoded.node = last.node

\* A branch with an embedded child, fifteen hashed children and a value of
\* 56 bytes came back.
C11_Witness ==
  /\ last.op = "decoded"
  /\ last.node.type = "branch"
  /\ last.node.children[1] = EmbeddedRef
  /\ last.node.children[16] = Filled(HashLen, 16)
  /\ last.node.value = Filled(56, 3)
  /\ last.decoded.err = ""
  /\ last.decoded.node = last.node

\* ------------------------------------------------------------------------
\* describeRoot on its own, applied to root references of every length a
\* NodeRef has and to the roots of one-key tries
\* ------------------------------------------------------------------------

\* The root of the trie that holds one key
singleKeyRoot(key, value) ==
  insertKeyValue(EMPTY_BYTES, key, value, callOptions(FALSE), freshCtx(EmptyStore)).rootRef

RootRefs ==
  {Filled(n, b) : n \in 0..HashLen, b \in {0, 127, 255}}
  \cup {singleKeyRoot(k, v) : k \in Keys, v \in Values}

InitRoot ==
  /\ db = EmptyStore
  /\ rootRef \in RootRefs
  /\ hist = << >>
  /\ roots = << >>
  /\ last = NoCall

\* rootView = describeRoot(rootRef)
DescribeRoot ==
  /\ last.op = "none"
  /\ last' = [op |-> "describeRoot", display |-> describeRoot(rootRef)]
  /\ UNCHANGED <<db, rootRef, hist, roots>>

SpecRoot == InitRoot /\ [][DescribeRoot]_vars

\* C12: describeRoot reports an empty root as isEmpty with the hash of
\* the empty-string serialization as commitment, a root of 1 to 31 bytes
\* as isEmbedded with its own hex and the hash of the reference as
\* commitment, and a 32-byte root with its hex as both; the commitment is
\* always the hex of 32 bytes.
C12_RootDescribed ==
  last.op = "describeRoot" =>
    LET d == last.display
    IN /\ d.isEmpty = (Len(rootRef) = 0)
       /\ d.isEmbedded = (Len(rootRef) \in 1..(HashLen - 1))
       /\ Len(rootRef) = 0 => d.commitmentHex = bytesToHex(keccak(RLP_EMPTY_STRING))
       /\ Len(rootRef) \in 1..(HashLen - 1) =>
            /\ d.rootRefHex = bytesToHex(rootRef)
            /\ d.commitmentHex = bytesToHex(keccak(rootRef))
       /\ Len(rootRef) = HashLen =>
            /\ d.rootRefHex = bytesToHex(rootRef)
            /\ d.commitmentHex = d.rootRefHex
       /\ Len(hexToBytes(d.commitmentHex)) = HashLen
       /\ Len(d.commitmentHex) = 2 + 2 * HashLen

\* The embedded root of a one-key trie was described.
C12_Witness ==
  /\ last.op = "describeRoot"
  /\ rootRef = singleKeyRoot(<<1>>, ShortValue)
  /\ Len(rootRef) \in 1..(HashLen - 1)
  /\ last.display.isEmbedded
  /\ last.display.commitmentHex = bytesToHex(keccak(rootRef))

\* ------------------------------------------------------------------------
\* The shape of the tries the engine builds (Spec)
\* ------------------------------------------------------------------------

\* The node a reference of store db denotes
nodeOf(ref) == resolveNodeWithoutTrace(ref, db).node

\* The slots of a branch that hold a child
occupied(children) == {i \in 1..Len(children) : Len(children[i]) > 0}

twoSiblingKeysInserted ==
  /\ Len(hist) = 2
  /\ hist[1][1] = <<1, 2, 3>>
  /\ hist[2][1] = <<1, 2, 4>>

\* C13: after [1,2,3] -> v1 and then [1,2,4] -> v2 are inserted into the
\* empty trie, the root is an extension over [1,2], its child a branch
\* with an empty value slot and children in the slots 3 and 4 alone, each
\* a leaf holding v1 and v2; the lookups of the two keys return v1 and v2.
C13_SharedPrefixSplit ==
  twoSiblingKeysInserted =>
    LET root == nodeOf(rootRef)
        branch == nodeOf(root.child)
        view == viewOf(rootRef, db)
    IN /\ root.type = "extension"
       /\ root.path = <<1, 2>>
       /\ branch.type = "branch"
       /\ Len(branch.children) = BranchWidth
       /\ branch.value = EMPTY_BYTES
       /\ occupied(branch.children) = {4, 5}
       /\ nodeOf(branch.children[4]).type = "leaf"
       /\ nodeOf(branch.children[4]).value = hist[1][2]
       /\ nodeOf(branch.children[5]).type = "leaf"
       /\ nodeOf(branch.children[5]).value = hist[2][2]
       /\ view[<<1, 2, 3>>].err = "" /\ view[<<1, 2, 4>>].err = ""
       /\ view[<<1, 2, 3>>].found /\ view[<<1, 2, 3>>].value = hist[1][2]
       /\ view[<<1, 2, 4>>].found /\ view[<<1, 2, 4>>].value = hist[2][2]

\* The two keys are in, the first with a value that is stored by hash and
\* the second with one that is embedded.
C13_Witness ==
  /\ twoSiblingKeysInserted
  /\ hist[1][2] = LongValue
  /\ hist[2][2] = ShortValue
  /\ nodeOf(rootRef).type = "extension"
  /\ Len(nodeOf(nodeOf(rootRef).child).children[4]) = HashLen
  /\ Len(nodeOf(nodeOf(rootRef).child).children[5]) < HashLen

\* The bytes of a row's value
rowBytes(e) == hexToBytes(e.valueHex)

\* C14: in a store that only engine inserts have written, as each insert
\* leaves it (nothing else writes to it), every row's key
\* is the 0x-prefixed hex of the hash of its value's bytes, its value is
\* the serialization, at least 32 bytes long, of a node of the variant the
\* row's nodeType names; so no serialization shorter than 32 bytes has a row.
C14_ContentAddressed ==
  last.op = "insert" =>
  \A key \in DOMAIN db.rows :
    With(db.rows[key], LAMBDA e :
      With(rowBytes(e), LAMBDA bytes :
        With(decodeTrieNode(bytes), LAMBDA decoded :
          /\ e.keyHex = key
          /\ e.keyHex = bytesToHex(keccak(bytes))
          /\ Len(bytes) >= HashLen
          /\ e.valueSize = Len(bytes)
          /\ decoded.err = ""
          /\ decoded.node.type = e.nodeType)))

\* The store holds a leaf, an extension and a branch, while the root's
\* branch embeds a leaf that has no row.
C14_Witness ==
  /\ last.op = "insert"
  /\ {entries(db)[i].nodeType : i \in 1..Len(entries(db))} = {"leaf", "extension", "branch"}
  /\ twoSiblingKeysInserted
  /\ Len(nodeOf(nodeOf(rootRef).child).children[5]) \in 1..(HashLen - 1)

\* ------------------------------------------------------------------------
\* The engine on a store that lacks rows: the root of a two-key trie is
\* used with a store made by fromEntries from a part of the trie's rows
\* ------------------------------------------------------------------------

BuiltPairs == <<(<<(<<1, 2, 3>>), LongValue>>), <<(<<1, 2, 4>>), Filled(HashLen, 8)>>>>

\* buildRoot: [rootRef, db] after the pairs are inserted in order
RECURSIVE buildRoot(_)
buildRoot(pairs) ==
  IF Len(pairs) = 0 THEN [rootRef |-> EMPTY_BYTES, db |-> EmptyStore]
  ELSE With(buildRoot(SubSeq(pairs, 1, Len(pairs) - 1)), LAMBDA before :
         With(insertKeyValue(before.rootRef, pairs[Len(pairs)][1], pairs[Len(pairs)][2],
                             callOptions(FALSE), freshCtx(before.db)),
              LAMBDA out : [rootRef |-> out.rootRef, db |-> out.ctx.db]))

\* The stores that hold all rows of store, all but one, or none
PartialStores(store) ==
  {store, EmptyStore}
  \cup {fromEntries(SelectSeq(entries(store), LAMBDA e : e.keyHex # k)) :
          k \in DOMAIN store.rows}

\* The trie of built, held with a store that has a part of its rows
Built(built) ==
  /\ db \in PartialStores(built.db)
  /\ rootRef = built.rootRef
  /\ hist = BuiltPairs
  /\ roots = <<[ref |-> built.rootRef, view |-> viewOf(built.rootRef, built.db)]>>
  /\ last = NoCall

InitMissing == Built(buildRoot(BuiltPairs))

NextMissing ==
  \/ \E key \in Keys, value \in Values, useCache \in BOOLEAN : Insert(key, value, useCache)
  \/ \E key \in ProbeKeys, useCache \in BOOLEAN : Lookup(rootRef, key, useCache)
  \/ Return

SpecMissing == InitMissing /\ [][NextMissing]_vars

\* TRUE when the walk from ref along key comes to a 32-byte reference
\* that has no row in store
RECURSIVE reachesMissingRow(_, _, _)
reachesMissingRow(ref, key, store) ==
  IF Len(ref) = 0 THEN FALSE
  ELSE IF Len(ref) = HashLen /\ bytesToHex(ref) \notin DOMAIN store.rows THEN TRUE
  ELSE With(resolveNodeWithoutTrace(ref, store).node, LAMBDA node :
         IF node.type = "extension"
         THEN /\ startsWith(key, node.path)
              /\ reachesMissingRow(node.child, slice(key, Len(node.path)), store)
         ELSE IF node.type = "branch"
         THEN /\ Len(key) > 0
              /\ reachesMissingRow(node.children[key[1] + 1], slice(key, 1), store)
         ELSE FALSE)

\* C15: a lookup or an insert whose walk comes to a 32-byte reference
\* without a row fails with the missing-node error: it reports neither
\* found = false nor a new root.
C15_MissingNodeFails ==
  last.op \in {"insert", "lookup"} /\ reachesMissingRow(last.root, last.key, last.dbBefore) =>
    /\ last.err = "MissingNode"
    /\ last.mismatchReason = ""
    /\ ~last.found
    /\ last.op = "insert" => rootRef = last.root

\* An insert came to the missing row of a leaf two levels below the root.
C15_Witness ==
  /\ last.op = "insert"
  /\ last.key = <<1, 2, 4>>
  /\ last.root = roots[1].ref
  /\ bytesToHex(last.root) \in DOMAIN last.dbBefore.rows
  /\ reachesMissingRow(last.root, last.key, last.dbBefore)
  /\ ~reachesMissingRow(last.root, <<1, 2, 3>>, last.dbBefore)
  /\ last.err = "MissingNode"

\* The serialization is a list of byte strings
listOfByteStrings(d) ==
  d.err = "" /\ d.isList /\ \A i \in 1..Len(d.items) : ~d.items[i].isList

\* The leaf flag of a compact path: bit 1 of its first nibble
leafFlag(compact) == (compact[1] \div 32) % 2 = 1

\* C16: of the lists of byte strings, decodeTrieNode makes a branch of
\* every list of 17 items (16 children and the value), a leaf or an
\* extension, as the leaf flag of the compact path says, of every list of
\* 2 items that begins with a compact path, and fails with the
\* malformed-node error on every other number of items.
C16_ClassifiedByArity ==
  last.op = "decoded" =>
    With(rlpDecode(last.bytes), LAMBDA d :
      listOfByteStrings(d) =>
        /\ Len(d.items) = 17 =>
             /\ last.decoded.err = ""
             /\ last.decoded.node.type = "branch"
             /\ last.decoded.node.children = [i \in 1..16 |-> d.items[i].data]
             /\ last.decoded.node.value = d.items[17].data
        /\ Len(d.items) = 2 /\ Len(d.items[1].data) > 0 =>
             /\ last.decoded.err = ""
             /\ last.decoded.node.type =
                  (IF leafFlag(d.items[1].data) THEN "leaf" ELSE "extension")
             /\ leafFlag(d.items[1].data) => last.decoded.node.value = d.items[2].data
             /\ ~leafFlag(d.items[1].data) => last.decoded.node.child = d.items[2].data
        /\ Len(d.items) \notin {2, 17} =>
             /\ last.decoded.err = "MalformedNode"
             /\ last.decoded.node = NoNode)

\* A list of 16 items that no encodeTrieNode wrote was refused.
C16_Witness ==
  /\ last.op = "decoded"
  /\ last.node = NoNode
  /\ listOfByteStrings(rlpDecode(last.bytes))
  /\ Len(rlpDecode(last.bytes).items) = 16
  /\ last.decoded.err = "MalformedNode"

\* ------------------------------------------------------------------------
\* The compact path codec on inputs of any kind: number sequences with
\* elements outside 0..15, and byte strings that no encodeCompactPath wrote
\* ------------------------------------------------------------------------

\* Number sequences with elements below, in and above 0..15
AnyPaths == UNION {[1..k -> {-1, 0, 15, 16, 256}] : k \in 0..MaxPathLen}

\* Byte strings of up to two bytes, with every flag nibble among them
RawPaths == UNION {[1..k -> {0, 16, 26, 32, 63, 74, 255}] : k \in 0..2}

InitCodecAny ==
  /\ db = EmptyStore
  /\ rootRef = EMPTY_BYTES
  /\ hist = << >>
  /\ roots = << >>
  /\ last \in {[op |-> "path", nibbles |-> n, isLeaf |-> f] : n \in AnyPaths, f \in BOOLEAN}
            \cup {[op |-> "encoded", nibbles |-> << >>, isLeaf |-> FALSE,
                   encoded |-> [err |-> "", bytes |-> b]] : b \in RawPaths}

SpecCodecAny == InitCodecAny /\ [][EncodePath \/ DecodePath]_vars

\* C17: encodeCompactPath refuses, with the invalid-nibble error and no
\* bytes, every sequence with an element outside 0..15, and only those;
\* decodeCompactPath fails with the empty-path error on no bytes, and the
\* nibbles it returns for any other input are all in 0..15.
C17_CodecRejects ==
  /\ last.op = "encoded" /\ (\E i \in 1..Len(last.nibbles) : last.nibbles[i] \notin 0..15) =>
       /\ last.encoded.err = "InvalidNibble"
       /\ last.encoded.bytes = << >>
  /\ last.op = "encoded" /\ (\A i \in 1..Len(last.nibbles) : last.nibbles[i] \in 0..15) =>
       last.encoded.err = ""
  /\ last.op = "decoded" /\ Len(last.bytes) = 0 =>
       last.decoded.err = "EmptyCompactPath"
  /\ last.op = "decoded" /\ Len(last.bytes) > 0 /\ last.decoded.err = "" =>
       \A i \in 1..Len(last.decoded.nibbles) : last.decoded.nibbles[i] \in 0..15

\* A path with a negative element after two nibbles was refused.
C17_Witness ==
  /\ last.op = "encoded"
  /\ last.nibbles = <<0, 15, -1>>
  /\ last.encoded.err = "InvalidNibble"

\* ------------------------------------------------------------------------
\* The integer codec on its own: a non-negative integer is written as
\* bytes and read back
\* ------------------------------------------------------------------------

\* Every value of one and of two bytes and the first of three bytes
MaxBigint == 66000

InitBigint ==
  /\ db = EmptyStore
  /\ rootRef = EMPTY_BYTES
  /\ hist = << >>
  /\ roots = << >>
  /\ last \in {[op |-> "bigint", value |-> v] :
                 v \in (0..MaxBigint) \cup {16777215, 16777216, 2147483647}}

\* bytes = bigintToBytes(value)
ToBytes ==
  /\ last.op = "bigint"
  /\ last' = [op |-> "bytes", value |-> last.value, bytes |-> bigintToBytes(last.value)]
  /\ UNCHANGED <<db, rootRef, hist, roots>>

\* back = bytesToBigint(bytes)
ToBigint ==
  /\ last.op = "bytes"
  /\ last' = [op |-> "back", value |-> last.value, bytes |-> last.bytes,
              back |-> bytesToBigint(last.bytes)]
  /\ UNCHANGED <<db, rootRef, hist, roots>>

SpecBigint == InitBigint /\ [][ToBytes \/ ToBigint]_vars

\* C18: bigintToBytes writes a non-negative integer as its big-endian
\* bytes without a leading zero byte, zero as no bytes, and bytesToBigint
\* reads the value back.
C18_MinimalBigEndian ==
  /\ last.op \in {"bytes", "back"} =>
       /\ \A i \in 1..Len(last.bytes) : last.bytes[i] \in 0..255
       /\ beValue(last.bytes, 0) = last.value
       /\ last.value = 0 <=> last.bytes = << >>
       /\ Len(last.bytes) > 0 => last.bytes[1] # 0
  /\ last.op = "back" => last.back = last.value

\* 65536, the first value of three bytes, was written as 01 00 00 and read
\* back.
C18_Witness ==
  /\ last.op = "back"
  /\ last.value = 65536
  /\ last.bytes = <<1, 0, 0>>
  /\ last.back = 65536

\* The store as it was when it held its first n rows: rows are added at
\* the end of insertionOrder and never removed
afterPuts(store, n) ==
  [rows |-> [k \in {store.insertionOrder[i] : i \in 1..n} |-> store.rows[k]],
   insertionOrder |-> SubSeq(store.insertionOrder, 1, n),
   clock |-> n]

\* The 32-byte references a node holds
hashRefs(node) ==
  IF node.type = "extension" THEN {r \in {node.child} : Len(r) = HashLen}
  ELSE IF node.type = "branch"
  THEN {node.children[i] : i \in {j \in 1..Len(node.children) :
                                    Len(node.children[j]) = HashLen}}
  ELSE {}

\* Every node under ref can be read from store
RECURSIVE fullyResolvable(_, _)
fullyResolvable(ref, store) ==
  \/ Len(ref) = 0
  \/ With(resolveNodeWithoutTrace(ref, store), LAMBDA r :
       /\ r.err = ""
       /\ r.node.type = "extension" => fullyResolvable(r.node.child, store)
       /\ r.node.type = "branch" =>
            \A i \in 1..Len(r.node.children) : fullyResolvable(r.node.children[i], store))

\* C19: children are stored before parents.  In the store an insert
\* leaves, every 32-byte reference in the node of a row has a row written
\* before it, so the store was closed after each single PUT; every root
\* returned so far can be read in full, and so can the root the insert
\* started from on the store after each PUT of the insert, which are the
\* snapshots the simulation takes.
C19_ChildrenBeforeParents ==
  last.op = "insert" =>
    /\ \A n \in 1..Len(db.insertionOrder) :
         \A r \in hashRefs(decodeTrieNode(rowBytes(db.rows[db.insertionOrder[n]])).node) :
           \E m \in 1..(n - 1) : db.insertionOrder[m] = bytesToHex(r)
    /\ \A i \in 1..Len(roots) : fullyResolvable(roots[i].ref, db)
    /\ \A n \in Len(last.dbBefore.insertionOrder)..Len(db.insertionOrder) :
         fullyResolvable(last.root, afterPuts(db, n))

\* An insert under a root stored by hash wrote three rows in this order:
\* a leaf, the branch that refers to it and the extension that refers to
\* the branch, which is the new root.
C19_Witness ==
  /\ last.op = "insert"
  /\ last.err = ""
  /\ Len(last.root) = HashLen
  /\ Len(db.insertionOrder) = Len(last.dbBefore.insertionOrder) + 3
  /\ LET n == Len(db.insertionOrder)
     IN /\ db.rows[db.insertionOrder[n - 2]].nodeType = "leaf"
        /\ db.rows[db.insertionOrder[n - 1]].nodeType = "branch"
        /\ db.rows[db.insertionOrder[n]].nodeType = "extension"
        /\ db.insertionOrder[n] = bytesToHex(rootRef)
        /\ db.insertionOrder[n - 1] = bytesToHex(nodeOf(rootRef).child)
        /\ db.insertionOrder[n - 2] = bytesToHex(nodeOf(nodeOf(rootRef).child).children[4])


\* ------------------------------------------------------------------------
\* Frame of the branch case of insertAt (Spec)
\* ------------------------------------------------------------------------

\* The branches the insert of key with value met on its way down from
\* oldRef (read in store before), each against the node rebuilt in its
\* place under newRef (read in store after): with key left only the slot
\* key[0] differs, with no key left only the value slot does.
RECURSIVE branchFramesKept(_, _, _, _, _, _)
branchFramesKept(oldRef, newRef, key, value, before, after) ==
  IF Len(oldRef) = 0 THEN TRUE
  ELSE
  With(resolveNodeWithoutTrace(oldRef, before).node, LAMBDA old :
    With(resolveNodeWithoutTrace(newRef, after).node, LAMBDA rebuilt :
      IF old.type = "branch"
      THEN /\ rebuilt.type = "branch"
           /\ Len(rebuilt.children) = Len(old.children)
           /\ IF Len(key) = 0
              THEN /\ rebuilt.children = old.children
                   /\ rebuilt.value = value
              ELSE /\ \A i \in 1..Len(old.children) :
                        i # key[1] + 1 => rebuilt.children[i] = old.children[i]
                   /\ rebuilt.value = old.value
                   /\ branchFramesKept(old.children[key[1] + 1], rebuilt.children[key[1] + 1],
                                       slice(key, 1), value, before, after)
      ELSE IF old.type = "extension" /\ commonPrefixLength(old.path, key) = Len(old.path)
      THEN /\ rebuilt.type = "extension"
           /\ rebuilt.path = old.path
           /\ branchFramesKept(old.child, rebuilt.child, slice(key, Len(old.path)), value,
                               before, after)
      ELSE TRUE))

\* C20: an insert that reaches a branch with key left rebuilds it with the
\* same value slot and the same fifteen child references outside the slot
\* of the key's first nibble; one that reaches it with no key left rebuilds
\* it with the same sixteen child references and the new value.
C20_BranchFrame ==
  (last.op = "insert" /\ last.err = "") =>
    branchFramesKept(last.root, rootRef, last.key, last.value, last.dbBefore, db)

\* The root was a branch holding the leaves of [1] and [2], the second by
\* hash; [1,2,3] was inserted: slot 1 changed, slot 2 kept its 32 bytes.
C20_Witness ==
  /\ last.op = "insert" /\ last.err = ""
  /\ last.key = <<1, 2, 3>>
  /\ With(resolveNodeWithoutTrace(last.root, last.dbBefore).node, LAMBDA old :
       /\ old.type = "branch"
       /\ Len(old.children[2]) > 0
       /\ Len(old.children[3]) = HashLen
       /\ nodeOf(rootRef).type = "branch"
       /\ nodeOf(rootRef).children[2] # old.children[2]
       /\ nodeOf(rootRef).children[3] = old.children[3])

\* A branch under an extension was reached with no key left and a value
\* other than the one it held: its value slot changed, its children did not.
C20_ValueSlotReached ==
  /\ last.op = "insert" /\ last.err = ""
  /\ With(resolveNodeWithoutTrace(last.root, last.dbBefore).node, LAMBDA old :
       /\ old.type = "extension"
       /\ last.key = old.path
       /\ With(resolveNodeWithoutTrace(old.child, last.dbBefore).node, LAMBDA branch :
            /\ branch.type = "branch"
            /\ branch.value # last.value
            /\ occupied(branch.children) # {}
            /\ nodeOf(nodeOf(rootRef).child).value = last.value
            /\ nodeOf(nodeOf(rootRef).child).children = branch.children))


\* ------------------------------------------------------------------------
\* What an insert reports: changedNodeIds and the trace (Spec)
\* ------------------------------------------------------------------------

\* The references a node holds to its children
childRefs(node) ==
  IF node.type = "extension" THEN {node.child}
  ELSE IF node.type = "branch"
  THEN {node.children[i] : i \in occupied(node.children)}
  ELSE {}

\* The pairs <<id of a node, id of a child of it>> of the trie under ref
RECURSIVE idEdges(_, _)
idEdges(ref, store) ==
  IF Len(ref) = 0 THEN {}
  ELSE With(childRefs(resolveNodeWithoutTrace(ref, store).node), LAMBDA refs :
         {<<nodeIdFromRef(ref), nodeIdFromRef(c)>> : c \in refs}
         \cup UNION {idEdges(c, store) : c \in refs})

\* The ids the finalize events of a trace name, in the order of the events
finalizedIds(trace) ==
  With(SelectSeq(trace, LAMBDA e : e.kind = "finalize"), LAMBDA events :
    [i \in 1..Len(events) |-> events[i].changedNodeId])

\* C21: the changedNodeIds of an insert are the ids of the nodes it
\* finalized, in the order of their finalization; the list is not empty,
\* ends with the id of the returned root, every id before the last is the
\* id of a child of a node listed later, and no node is listed before a
\* child of it.
C21_ChangedNodeIds ==
  (last.op = "insert" /\ last.err = "") =>
    With(idEdges(rootRef, db), LAMBDA edges :
      /\ last.changedNodeIds = finalizedIds(last.trace)
      /\ Len(last.changedNodeIds) > 0
      /\ last.changedNodeIds[Len(last.changedNodeIds)] = nodeIdFromRef(rootRef)
      /\ \A i \in 1..(Len(last.changedNodeIds) - 1) :
           \E j \in (i + 1)..Len(last.changedNodeIds) :
             <<last.changedNodeIds[j], last.changedNodeIds[i]>> \in edges
      /\ \A i \in 1..Len(last.changedNodeIds) :
           \A j \in (i + 1)..Len(last.changedNodeIds) :
             <<last.changedNodeIds[i], last.changedNodeIds[j]>> \notin edges)

\* A leaf was split under a shared prefix: the old leaf, the new leaf, the
\* branch and the extension were finalized in this order, four ids.
C21_Witness ==
  /\ last.op = "insert" /\ last.err = ""
  /\ Len(last.changedNodeIds) = 4
  /\ Cardinality({last.changedNodeIds[i] : i \in 1..4}) = 4
  /\ nodeOf(rootRef).type = "extension"
  /\ last.changedNodeIds[4] = nodeIdFromRef(rootRef)
  /\ last.changedNodeIds[3] = nodeIdFromRef(nodeOf(rootRef).child)


\* ------------------------------------------------------------------------
\* The trace of a call (SpecTrace): simulateBuild inserts with
\* emitDbGetEvents false and no cache in use, simulateUpdate and
\* simulateLookup with emitDbGetEvents true
\* ------------------------------------------------------------------------

\* The assignments of an insert of the simulator whose outcome is `out`:
\* op is "build" for the insert of simulateBuild (no db-get events asked
\* for), "insert" for the one of simulateUpdate
insertStep(key, value, useCache, emits, out) ==
  /\ db' = out.ctx.db
  /\ rootRef' = IF out.err = "" THEN out.rootRef ELSE rootRef
  /\ hist' = IF out.err = "" THEN Append(hist, <<key, value>>) ELSE hist
  /\ roots' = IF out.err = ""
              THEN Append(roots, [ref |-> out.rootRef,
                                  view |-> viewOf(out.rootRef, out.ctx.db)])
              ELSE roots
  /\ last' = [NoCall EXCEPT !.op = IF emits THEN "insert" ELSE "build",
                            !.key = key, !.value = value,
                            !.useCache = useCache, !.root = rootRef,
                            !.dbBefore = db, !.err = out.err,
                            !.changedNodeIds = out.changedNodeIds,
                            !.trace = out.ctx.trace]

\* insertKeyValue(rootRef, keyNibbles, value, {db, trace, emitDbGetEvents,
\* cache: new Map(), useCache})
InsertTraced(key, value, useCache, emits) ==
  /\ Idle
  /\ Len(hist) < MaxInserts
  /\ insertStep(key, value, useCache, emits,
                insertKeyValue(rootRef, key, value,
                               [callOptions(useCache) EXCEPT !.emitDbGetEvents = emits],
                               freshCtx(db)))

\* simulateBuild inserts with useCache false and emitDbGetEvents false,
\* simulateUpdate with the caller's useCache and emitDbGetEvents true
SimulatorOptions == {<<FALSE, FALSE>>, <<FALSE, TRUE>>, <<TRUE, TRUE>>}

SpecTrace ==
  Init /\ [][\/ \E key \in Keys, value \in Values, o \in SimulatorOptions :
                  InsertTraced(key, value, o[1], o[2])
             \/ \E key \in ProbeKeys, useCache \in BOOLEAN : Lookup(rootRef, key, useCache)
             \/ Return]_vars

\* An id that is the hex of a 32-byte reference
isHashId(id) == Len(id) = 2 * HashLen + 2

\* The events of trace t are those of a call that started with an empty
\* cache, had a trace sink, used the cache or not (useCache) and was asked
\* for db-get events or not (emits)
traceAsEmitted(t, useCache, emits) ==
  \A i \in 1..Len(t) :
    /\ t[i].kind = "finalize" =>
         IF isHashId(t[i].changedNodeId)
         THEN /\ i < Len(t)
              /\ t[i + 1].kind = "db-put"
              /\ t[i + 1].dbAction = "PUT"
              /\ t[i + 1].dbKeyHex = t[i].changedNodeId
         ELSE i = Len(t) \/ t[i + 1].kind # "db-put"
    /\ t[i].kind = "db-put" =>
         /\ i > 1
         /\ t[i - 1].kind = "finalize"
         /\ t[i - 1].changedNodeId = t[i].dbKeyHex
    /\ (t[i].kind = "visit" /\ isHashId(t[i].activeNodeId) /\ emits) =>
         /\ i > 1
         /\ t[i - 1].kind = "db-get"
         /\ t[i - 1].dbAction = "GET"
         /\ t[i - 1].dbKeyHex = t[i].activeNodeId
    /\ t[i].kind = "db-get" =>
         /\ emits
         /\ isHashId(t[i].dbKeyHex)
         /\ t[i].cacheHit =
              (useCache /\ \E j \in 1..(i - 1) :
                              /\ t[j].kind \in {"db-get", "db-put"}
                              /\ t[j].dbKeyHex = t[i].dbKeyHex)

\* The finalize events of the last call are one per finalized node and
\* its db-put events one per row the call wrote
finalizesTraced ==
  /\ (last.op \in {"build", "insert"} /\ last.err = "") =>
       Len(finalizedIds(last.trace)) = Len(last.changedNodeIds)
  /\ \A n \in (Len(last.dbBefore.insertionOrder) + 1)..Len(db.insertionOrder) :
       \E i \in 1..Len(last.trace) :
         last.trace[i].kind = "db-put" /\ last.trace[i].dbKeyHex = db.insertionOrder[n]

\* C22 (as the code has it): with a trace sink, every finalize emits a
\* finalize event, which a db-put event for the same key follows at once
\* exactly when the node is referred to by hash; every resolve of a 32-byte
\* reference that the store or the cache answers emits a db-get event with
\* the key and the cache hit when the call has emitDbGetEvents true, and no
\* db-get event is emitted when it has not, as in the inserts of
\* simulateBuild.
C22_TraceEvents ==
  last.op # "none" =>
    /\ traceAsEmitted(last.trace, last.useCache, last.op # "build")
    /\ finalizesTraced

\* C22 as stated: every resolve of a 32-byte reference emits a db-get
\* event whenever a trace sink is supplied
C22_AlwaysDbGet ==
  last.op # "none" =>
    /\ traceAsEmitted(last.trace, last.useCache, TRUE)
    /\ finalizesTraced

\* An insert of simulateBuild read its root from the store, visited it
\* without a db-get event, finalized a node by hash with its db-put event
\* and another one embedded.
C22_Witness ==
  /\ last.op = "build" /\ last.err = ""
  /\ Len(last.root) = HashLen
  /\ last.trace[1].kind = "visit"
  /\ isHashId(last.trace[1].activeNodeId)
  /\ \E i \in 1..Len(last.trace) :
       last.trace[i].kind = "finalize" /\ isHashId(last.trace[i].changedNodeId)
  /\ \E i \in 1..Len(last.trace) :
       last.trace[i].kind = "finalize" /\ ~isHashId(last.trace[i].changedNodeId)
  /\ \A i \in 1..Len(last.trace) : last.trace[i].kind # "db-get"


\* ------------------------------------------------------------------------
\* The cache of a call (Spec)
\* ------------------------------------------------------------------------

\* A cache that answers every key of store with the serialization of an
\* empty list, which is no node
staleCache(store) == [k \in DOMAIN store.rows |-> <<192>>]

\* An outcome without the cache the call ended with
withoutCache(out) == [out EXCEPT !.ctx.cache = << >>]

\* on and off are the outcomes of one call with useCache true and false
\* on an empty cache, offStale its outcome with useCache false on the
\* cache stale: the three are equal but for the cache, and the cache of
\* offStale is stale as it was
cacheTransparent(on, off, offStale, stale) ==
  /\ withoutCache(on) = withoutCache(off)
  /\ off.ctx.cache = << >>
  /\ withoutCache(offStale) = withoutCache(off)
  /\ offStale.ctx.cache = stale
  /\ db = on.ctx.db

\* C23: a lookup or an insert that starts with an empty cache has the
\* same outcome (error, found, value, mismatchReason, rootRef,
\* changedNodeIds, trace) and leaves the same store with useCache true and
\* with useCache false; with useCache false a cache that was supplied is
\* neither read nor written.
C23_CacheTransparent ==
  /\ last.op = "insert" =>
       cacheTransparent(
         insertKeyValue(last.root, last.key, last.value, callOptions(TRUE),
                        freshCtx(last.dbBefore)),
         insertKeyValue(last.root, last.key, last.value, callOptions(FALSE),
                        freshCtx(last.dbBefore)),
         insertKeyValue(last.root, last.key, last.value, callOptions(FALSE),
                        [freshCtx(last.dbBefore) EXCEPT !.cache = staleCache(last.dbBefore)]),
         staleCache(last.dbBefore))
  /\ last.op = "lookup" =>
       cacheTransparent(
         lookupKey(last.root, last.key, callOptions(TRUE), freshCtx(last.dbBefore)),
         lookupKey(last.root, last.key, callOptions(FALSE), freshCtx(last.dbBefore)),
         lookupKey(last.root, last.key, callOptions(FALSE),
                   [freshCtx(last.dbBefore) EXCEPT !.cache = staleCache(last.dbBefore)]),
         staleCache(last.dbBefore))

\* An insert with useCache true read two nodes from the store and wrote
\* rows: its cache ended with the rows it read and wrote.
C23_Witness ==
  /\ last.op = "insert" /\ last.err = "" /\ last.useCache
  /\ Len(last.root) = HashLen
  /\ Cardinality({i \in 1..Len(last.trace) : last.trace[i].kind = "db-get"}) >= 2
  /\ Len(db.insertionOrder) > Len(last.dbBefore.insertionOrder)
  /\ staleCache(last.dbBefore) # << >>
  /\ Cardinality(DOMAIN insertKeyValue(last.root, last.key, last.value, callOptions(TRUE),
                                       freshCtx(last.dbBefore)).ctx.cache) >= 3


\* ------------------------------------------------------------------------
\* Depth of a walk (Spec)
\* ------------------------------------------------------------------------

\* The visit events of a trace, one per node the call resolved
visits(trace) == SelectSeq(trace, LAMBDA e : e.kind = "visit")

\* The nodes of v were visited on the way down a key of keyLen nibbles:
\* each after at least one more nibble than the one before, each with the
\* rest of the key as its remainder
descending(v, keyLen) ==
  /\ Len(v) <= keyLen + 1
  /\ \A i \in 1..Len(v) :
       /\ v[i].consumed <= keyLen
       /\ Len(v[i].keyRemainder) = keyLen - v[i].consumed
       /\ i > 1 => v[i].consumed > v[i - 1].consumed

\* C24: a lookup or an insert on a trie built by inserts ends, having
\* visited at most len(key) + 1 nodes, each deeper in the key than the one
\* before, whatever the number of rows in the store.
C24_DepthBounded ==
  last.op \in {"insert", "lookup"} => descending(visits(last.trace), Len(last.key))

\* A lookup of a one-nibble key visited two nodes, a branch and the leaf
\* in its slot, in a store of more rows than nodes visited.
C24_Witness ==
  /\ last.op = "lookup" /\ last.found
  /\ Len(last.key) = 1
  /\ Len(visits(last.trace)) = 2
  /\ visits(last.trace)[2].consumed = 1
  /\ Len(db.insertionOrder) > 2


\* ------------------------------------------------------------------------
\* Extensions of the tries inserts build (Spec)
\* ------------------------------------------------------------------------

\* Every extension under ref has a path of at least one nibble and a
\* child reference that is not empty and denotes a branch
RECURSIVE extensionsOverBranches(_, _)
extensionsOverBranches(ref, store) ==
  \/ Len(ref) = 0
  \/ With(resolveNodeWithoutTrace(ref, store), LAMBDA r :
       /\ r.err = ""
       /\ r.node.type = "extension" =>
            /\ Len(r.node.path) > 0
            /\ Len(r.node.child) > 0
            /\ resolveNodeWithoutTrace(r.node.child, store).err = ""
            /\ resolveNodeWithoutTrace(r.node.child, store).node.type = "branch"
            /\ extensionsOverBranches(r.node.child, store)
       /\ r.node.type = "branch" =>
            \A i \in 1..Len(r.node.children) :
              extensionsOverBranches(r.node.children[i], store))

\* C25: in the trie under every root an insert returns, starting from the
\* empty root, every extension has a non-empty path and a non-empty child
\* reference that denotes a branch.
C25_ExtensionsOverBranches ==
  last.op = "insert" => extensionsOverBranches(rootRef, db)

\* An extension over [1,2] was split at its first nibble by the key [2]:
\* the root is a branch that holds in slot 1 the rest of the extension,
\* an extension over [2] above the branch it had, and in slot 2 a leaf.
C25_Witness ==
  /\ last.op = "insert" /\ last.err = ""
  /\ last.key = <<2>>
  /\ nodeOf(last.root).type = "extension"
  /\ nodeOf(rootRef).type = "branch"
  /\ nodeOf(nodeOf(rootRef).children[2]).type = "extension"
  /\ nodeOf(nodeOf(rootRef).children[2]).path = <<2>>
  /\ nodeOf(nodeOf(nodeOf(rootRef).children[2]).child).type = "branch"
  /\ nodeOf(nodeOf(rootRef).children[3]).type = "leaf"


\* ------------------------------------------------------------------------
\* buildTrieGraph (SpecGraph): the graph of the trie under a root, read
\* from a store that may lack rows or hold rows that refer to each other
\* ------------------------------------------------------------------------

\* nodesById, discovery, depthById, edges and expanded before any visit
EmptyGraph ==
  [nodesById |-> << >>, discovery |-> << >>, depthById |-> << >>, edges |-> << >>,
   expanded |-> {}]

\* visitRef: [g, id], the graph state after the visit and the id of the
\* node, NoId standing for undefined; visitChildren is the loop over the
\* slots of a branch from slot i on
RECURSIVE visitRef(_, _, _, _)
RECURSIVE visitChildren(_, _, _, _, _, _)
visitChildrenUntilMissing(node, nodeId, i, depth, g, store) ==
  IF i >= Len(node.children) THEN g
  ELSE IF Len(node.children[i + 1]) = 0
  THEN visitChildren(node, nodeId, i + 1, depth, g, store)
  ELSE With(visitRef(node.children[i + 1], depth + 1, g, store), LAMBDA v :
         IF v.id = NoId THEN v.g
         ELSE visitChildren(node, nodeId, i + 1, depth,
                [v.g EXCEPT !.edges =
                   Append(@, [from |-> nodeId, to |-> v.id,
                              refKind |-> refKindFromRef(node.children[i + 1]),
                              label |-> HexDigits[i + 1]])],
                store))

visitChildren(node, nodeId, i, depth, g, store) ==
  IF i >= Len(node.children) THEN g
  ELSE IF Len(node.children[i + 1]) = 0
  THEN visitChildren(node, nodeId, i + 1, depth, g, store)
  ELSE With(visitRef(node.children[i + 1], depth + 1, g, store), LAMBDA v :
         IF v.id = NoId THEN visitChildren(node, nodeId, i + 1, depth, v.g, store)
         ELSE visitChildren(node, nodeId, i + 1, depth,
                [v.g EXCEPT !.edges =
                   Append(@, [from |-> nodeId, to |-> v.id,
                              refKind |-> refKindFromRef(node.children[i + 1]),
                              label |-> HexDigits[i + 1]])],
                store))

visitRef(ref, depth, g, store) ==
  IF Len(ref) = 0 THEN [g |-> g, id |-> NoId]
  ELSE
  With(resolveNodeWithoutTrace(ref, store), LAMBDA resolved :
    IF resolved.err # "" THEN [g |-> g, id |-> NoId]
    ELSE
    With(nodeIdFromRef(ref), LAMBDA nodeId :
      With(IF nodeId \notin DOMAIN g.nodesById
           THEN [g EXCEPT !.nodesById =
                            mapSet(@, nodeId, [id |-> nodeId, type |-> resolved.node.type,
                                               refKind |-> refKindFromRef(ref)]),
                          !.discovery = Append(@, nodeId),
                          !.depthById = mapSet(@, nodeId, depth)]
           ELSE [g EXCEPT !.depthById = mapSet(@, nodeId, min(g.depthById[nodeId], depth))],
           LAMBDA g1 :
        IF nodeId \in g1.expanded THEN [g |-> g1, id |-> nodeId]
        ELSE With([g1 EXCEPT !.expanded = @ \cup {nodeId}], LAMBDA g2 :
               IF resolved.node.type = "branch"
               THEN [g |-> visitChildren(resolved.node, nodeId, 0, depth, g2, store),
                     id |-> nodeId]
               ELSE IF resolved.node.type = "extension"
               THEN With(visitRef(resolved.node.child, depth + 1, g2, store), LAMBDA v :
                      [g |-> IF v.id = NoId THEN v.g
                             ELSE [v.g EXCEPT !.edges =
                                     Append(@, [from |-> nodeId, to |-> v.id,
                                                refKind |-> refKindFromRef(resolved.node.child),
                                                label |-> "next"])],
                       id |-> nodeId])
               ELSE [g |-> g2, id |-> nodeId]))))

\* The graph without its layout: the nodes in the order they were found,
\* each at its least depth, the edges in the order they were pushed
buildTrieGraph(ref, store) ==
  IF Len(ref) = 0 THEN [nodes |-> << >>, edges |-> << >>, rootId |-> NoId]
  ELSE With(visitRef(ref, 0, EmptyGraph, store), LAMBDA v :
         [nodes |-> [n \in 1..Len(v.g.discovery) |->
                       [id |-> v.g.discovery[n],
                        type |-> v.g.nodesById[v.g.discovery[n]].type,
                        refKind |-> v.g.nodesById[v.g.discovery[n]].refKind,
                        depth |-> v.g.depthById[v.g.discovery[n]]]],
          edges |-> v.g.edges,
          rootId |-> v.id])

\* Two keys under a shared prefix, twice: the subtrees under the slots 1
\* and 2 of the root are one node; and three keys with embedded nodes
TwinPairs ==
  <<(<<(<<1, 2, 3>>), LongValue>>), <<(<<1, 2, 4>>), Filled(HashLen, 8)>>,
    <<(<<2, 2, 3>>), LongValue>>, <<(<<2, 2, 4>>), Filled(HashLen, 8)>>>>

MixedPairs ==
  <<(<<(<<1>>), ShortValue>>), <<(<<2>>), LongValue>>, <<(<<1, 2, 3>>), Filled(HashLen, 8)>>>>

\* A store whose one row, keyed by a 32-byte reference, holds an
\* extension whose child is that reference
Looped ==
  [rootRef |-> Filled(HashLen, 5),
   db |-> put(EmptyStore, bytesToHex(Filled(HashLen, 5)),
              bytesToHex(encodeTrieNode([type |-> "extension", path |-> <<1>>,
                                         child |-> Filled(HashLen, 5)]).bytes),
              "extension").store]

\* The empty trie with the empty store, or the root and store of built
Shown(built) ==
  /\ \E b \in {[rootRef |-> EMPTY_BYTES, db |-> EmptyStore], built} :
       rootRef = b.rootRef /\ db = b.db
  /\ hist = << >>
  /\ roots = << >>
  /\ last = NoCall

InitGraph == Shown(Looped)

\* The next pair of pairs is inserted into the trie held
Grow(pairs) ==
  /\ Idle
  /\ Len(hist) < Len(pairs)
  /\ hist = SubSeq(pairs, 1, Len(hist))
  /\ recordInsert(pairs[Len(hist) + 1][1], pairs[Len(hist) + 1][2], FALSE,
                  insertKeyValue(rootRef, pairs[Len(hist) + 1][1], pairs[Len(hist) + 1][2],
                                 callOptions(FALSE), freshCtx(db)))

\* buildTrieGraph(displayRootRef, InMemoryKvStore.fromEntries(displayEntries)),
\* the entries displayed being the rows of the store keyed in part
Graph(part) ==
  /\ Idle
  /\ last' = With(fromEntries(SelectSeq(entries(db), LAMBDA e : e.keyHex \in part)),
                  LAMBDA shown : [op |-> "graph", store |-> shown,
                                  graph |-> buildTrieGraph(rootRef, shown)])
  /\ UNCHANGED <<db, rootRef, hist, roots>>

SpecGraph ==
  InitGraph /\ [][\/ \E pairs \in {TwinPairs, MixedPairs} : Grow(pairs)
                  \/ \E part \in SUBSET DOMAIN db.rows : Graph(part)
                  \/ Return]_vars

\* The references that can be read from store
resolvable(refs, store) ==
  {r \in refs : Len(r) > 0 /\ resolveNodeWithoutTrace(r, store).err = ""}

\* The references reached from refs through references that can be read
RECURSIVE reachedThroughResolvable(_, _)
reachedThroughResolvable(refs, store) ==
  With(refs \cup UNION {childRefs(resolveNodeWithoutTrace(r, store).node) :
                          r \in resolvable(refs, store)},
       LAMBDA more :
    IF more = refs THEN refs ELSE reachedThroughResolvable(more, store))

\* The edges <<from, to, label>> between nodes that can be read, among refs
edgesAmong(refs, store) ==
  UNION {With(resolveNodeWithoutTrace(r, store).node, LAMBDA node :
           IF node.type = "extension"
           THEN {<<nodeIdFromRef(r), nodeIdFromRef(c), "next">> :
                   c \in resolvable({node.child}, store)}
           ELSE IF node.type = "branch"
           THEN {<<nodeIdFromRef(r), nodeIdFromRef(node.children[i]), HexDigits[i]>> :
                   i \in {j \in occupied(node.children) :
                            resolvable({node.children[j]}, store) # {}}}
           ELSE {}) : r \in resolvable(refs, store)}

\* C26: buildTrieGraph has a graph for every root and store; its nodes are
\* the nodes reached from the root through references that can be read,
\* each once, its edges are the edges between them, each once, and a
\* reference that cannot be read contributes neither node nor edge.
C26_GraphOfResolvable ==
  last.op = "graph" =>
    With(reachedThroughResolvable({rootRef}, last.store), LAMBDA refs :
      /\ {last.graph.nodes[n].id : n \in 1..Len(last.graph.nodes)}
           = {nodeIdFromRef(r) : r \in resolvable(refs, last.store)}
      /\ Cardinality({last.graph.nodes[n].id : n \in 1..Len(last.graph.nodes)})
           = Len(last.graph.nodes)
      /\ {<<last.graph.edges[n].from, last.graph.edges[n].to, last.graph.edges[n].label>> :
            n \in 1..Len(last.graph.edges)}
           = edgesAmong(refs, last.store)
      /\ Cardinality(edgesAmong(refs, last.store)) = Len(last.graph.edges)
      /\ last.graph.rootId = IF resolvable({rootRef}, last.store) = {} THEN NoId
                             ELSE nodeIdFromRef(rootRef))

\* The root branch is read, the row of the extension both of its slots
\* refer to is read, the row of the branch below is missing: two nodes
\* and two edges, nothing of the subtree below the extension.
C26_Witness ==
  /\ last.op = "graph"
  /\ Len(last.graph.nodes) = 2
  /\ Len(last.graph.edges) = 2
  /\ last.graph.nodes[1].type = "branch"
  /\ last.graph.nodes[2].type = "extension"
  /\ last.graph.edges[1].to = last.graph.edges[2].to
  /\ Len(last.store.insertionOrder) > 2
  /\ resolvable(childRefs(nodeOf(nodeOf(rootRef).children[2])), last.store) = {}


\* ------------------------------------------------------------------------
\* Order of the inserts (Spec)
\* ------------------------------------------------------------------------

\* The orders in which n inserts can be made
orders(n) == {p \in [1..n -> 1..n] : \A i, j \in 1..n : i # j => p[i] # p[j]}

\* The pairs inserted so far, in the order p
reordered(p) == [i \in 1..Len(hist) |-> hist[p[i]]]

\* C27: when the keys inserted so far are distinct and their values not
\* empty, inserting the same pairs into an empty trie and an empty store
\* in any other order returns the same final root.
C27_OrderIndependent ==
  (last.op = "insert" /\ distinctKeys /\ nonEmptyValues) =>
    \A p \in orders(Len(hist)) : buildRoot(reordered(p)).rootRef = rootRef

\* Three keys, one a prefix of another, were inserted with a root stored
\* by hash; in another order the root is the same and the store holds
\* other rows.
C27_Witness ==
  /\ last.op = "insert" /\ distinctKeys /\ nonEmptyValues
  /\ Len(hist) = 3
  /\ Len(rootRef) = HashLen
  /\ <<1>> \in insertedKeys /\ <<1, 2, 3>> \in insertedKeys
  /\ \E p \in orders(3) :
       /\ buildRoot(reordered(p)).rootRef = rootRef
       /\ DOMAIN buildRoot(reordered(p)).db.rows # DOMAIN db.rows


\* ------------------------------------------------------------------------
\* What an insert changes for the other keys (Spec)
\* ------------------------------------------------------------------------

\* The lookups of every probe key other than the inserted one answer the
\* same under the new root as under the root the insert started from
otherKeysUntouched ==
  \A k \in ProbeKeys \ {last.key} :
    /\ viewOf(rootRef, db)[k].err = viewOf(last.root, last.dbBefore)[k].err
    /\ viewOf(rootRef, db)[k].found = viewOf(last.root, last.dbBefore)[k].found
    /\ viewOf(rootRef, db)[k].value = viewOf(last.root, last.dbBefore)[k].value

\* The values inserted before the last insert are not empty
earlierValuesNonEmpty == \A i \in 1..(Len(hist) - 1) : Len(hist[i][2]) > 0

\* C28 (as the code has it): an insert into a trie whose values are not
\* empty leaves the found flag and the value of every other key as they
\* were.
C28_OtherKeysUntouched ==
  (last.op = "insert" /\ last.err = "" /\ earlierValuesNonEmpty) => otherKeysUntouched

\* C28 as stated: an insert leaves the found flag and the value of every
\* other key as they were, whatever the values in the trie
C28_AnyTrieUntouched ==
  (last.op = "insert" /\ last.err = "") => otherKeysUntouched

\* The key [1,2,3] was inserted into a trie that held [1] and [2] with
\* non-empty values under a root stored by hash: the leaf of [1] was
\* split, [1] and [2] are found with their values as before.
C28_Witness ==
  /\ last.op = "insert" /\ last.err = "" /\ earlierValuesNonEmpty
  /\ Len(hist) = 3
  /\ last.key = <<1, 2, 3>>
  /\ Len(last.root) = HashLen
  /\ viewOf(last.root, last.dbBefore)[<<1>>].found
  /\ viewOf(last.root, last.dbBefore)[<<2>>].found
  /\ ~viewOf(last.root, last.dbBefore)[<<1, 2, 3>>].found
  /\ viewOf(rootRef, db)[<<1, 2, 3>>].found
  /\ otherKeysUntouched


\* ------------------------------------------------------------------------
\* Inserts that fail (SpecFail): a built trie held with a store that lacks
\* a row or holds a row that is no node, keys with a nibble out of range
\* ------------------------------------------------------------------------

\* Keys whose last nibble is 16
InvalidKeys == {<<2, 16>>, <<1, 16>>, <<1, 2, 16>>}

\* InMemoryKvStore.fromEntries on the rows of store, one of them with the
\* serialization of an empty list as its value
MalformedStores(store) ==
  {fromEntries([i \in 1..Len(entries(store)) |->
                  IF entries(store)[i].keyHex = k
                  THEN [entries(store)[i] EXCEPT !.valueHex = bytesToHex(<<192>>)]
                  ELSE entries(store)[i]]) :
     k \in DOMAIN store.rows}

\* The trie of built, held with a store that lacks rows or has a row that
\* is no node
Damaged(built) ==
  /\ db \in PartialStores(built.db) \cup MalformedStores(built.db)
  /\ rootRef = built.rootRef
  /\ hist = BuiltPairs
  /\ roots = <<[ref |-> built.rootRef, view |-> viewOf(built.rootRef, built.db)]>>
  /\ last = NoCall

SpecFail ==
  Damaged(buildRoot(BuiltPairs))
  /\ [][\/ \E key \in Keys \cup InvalidKeys, value \in Values, useCache \in BOOLEAN :
             Insert(key, value, useCache)
        \/ Return]_vars

\* The rows the store had before the last call are as they were, in the
\* order they were in
rowsBeforeKept ==
  /\ \A k \in DOMAIN last.dbBefore.rows :
       k \in DOMAIN db.rows /\ db.rows[k] = last.dbBefore.rows[k]
  /\ SubSeq(db.insertionOrder, 1, Len(last.dbBefore.insertionOrder))
       = last.dbBefore.insertionOrder

\* The errors of serializing a new node: a nibble of the key out of range
\* in a path, or used as the slot of a branch
EncodeErrors == {"InvalidNibble", "BranchWidth"}

\* C29 (as the code has it): an insert that fails leaves the root and
\* every row the store had; when it fails while reading the trie (missing
\* node, stored bytes that are no node, no slot for the nibble) the store
\* is as before the call; when it fails on a nibble of the key out of
\* range while serializing, the rows written for the nodes finalized
\* before stay.
C29_FailedInsertKeepsRows ==
  (last.op = "insert" /\ last.err # "") =>
    /\ rootRef = last.root
    /\ rowsBeforeKept
    /\ last.err \notin EncodeErrors => db = last.dbBefore

\* C29 as stated: an insert that fails leaves the rows of the store as
\* they were before the call
C29_FailedInsertAtomic ==
  (last.op = "insert" /\ last.err # "") => db.rows = last.dbBefore.rows

\* The insert of [2,16] split the root extension: the rest of the
\* extension was finalized and its row written, then the new leaf's path
\* [16] was refused; the store has one row more.
C29_Witness ==
  /\ last.op = "insert"
  /\ last.key = <<2, 16>>
  /\ last.err = "InvalidNibble"
  /\ rootRef = last.root
  /\ rowsBeforeKept
  /\ Len(db.insertionOrder) = Len(last.dbBefore.insertionOrder) + 1


\* ------------------------------------------------------------------------
\* Order of the events of an insert (SpecTrace)
\* ------------------------------------------------------------------------

\* The positions in trace t of the events of the kinds given
positionsOf(t, kinds) == {i \in 1..Len(t) : t[i].kind \in kinds}

\* C30: in the trace of an insert every db-get and every visit event comes
\* before the first finalize and the first db-put event, and the consumed
\* counts of the finalize events never increase from one to the next.
C30_ResolvesBeforeFinalizes ==
  last.op \in {"build", "insert"} =>
    /\ \A i \in positionsOf(last.trace, {"db-get", "visit"}) :
         \A j \in positionsOf(last.trace, {"finalize", "db-put"}) : i < j
    /\ \A i, j \in positionsOf(last.trace, {"finalize"}) :
         i < j => last.trace[i].consumed >= last.trace[j].consumed

\* An insert read the root extension and the branch below it from the
\* store, visited the embedded leaf in the branch, and then finalized the
\* leaf at depth 3, the branch at depth 2 and the extension at depth 0.
C30_Witness ==
  /\ last.op = "insert" /\ last.err = ""
  /\ Cardinality(positionsOf(last.trace, {"db-get"})) = 2
  /\ Cardinality(positionsOf(last.trace, {"visit"})) = 3
  /\ Cardinality(positionsOf(last.trace, {"db-put"})) = 3
  /\ [i \in 1..3 |-> SelectSeq(last.trace, LAMBDA e : e.kind = "finalize")[i].consumed]
       = <<3, 2, 0>>
====
